---- MODULE Spec2Model ----
(***************************************************************************)
(* flutter-cli: the debug-session lifecycle manager (process.rs, state.rs) *)
(* and its JSON-RPC client over a websocket (vm_service.rs).               *)
(*                                                                         *)
(* SpecSend   : one VmServiceConnection, the server and the callers that   *)
(*              issue send / ping on it.                                   *)
(* SpecEnsure : successive invocations of ensure_connection against the    *)
(*              state file, the operating system's processes and the       *)
(*              output of the spawned `flutter run --machine`.             *)
(***************************************************************************)
EXTENDS Integers, Sequences, FiniteSets, TLC

\* ------------------------------------------------------------------ bounds
\* number of send calls followed on one connection
MaxSends == 3
\* messages the server may have in flight towards the client
MaxInbox == 1
\* process ids the operating system hands out in one behaviour
MaxPid == 2
\* output lines read from one spawned process
MaxLines == 2
\* calls of kill_process made on their own
MaxKills == 2

VARIABLES
    \* ---- VmServiceConnection and its peer
    next_id,     \* VmServiceConnection.next_id
    wsState,     \* the websocket: "connecting" (connect is running, no client
                 \* yet), "failed" (connect returned Err, no client), "open",
                 \* "peerClosed" (closed by the server, not yet seen by the
                 \* client), "closed" (stream returned None)
    inbox,       \* messages written by the server and not yet read
    awaiting,    \* id the running send waits for, 0 when no send is running
    via,         \* "send" or "ping": who called the running / last send
    used,        \* ids assigned so far, in order of assignment
    last,        \* outcome of the last send that returned
    skipped,     \* what the running / last send read and discarded
    \* ---- ensure_connection, the state file, the processes
    store,       \* contents of the state file of the project (NoRec: no file)
    alive,       \* process ids that exist
    nextPid,     \* next process id the operating system hands out (a pid
                 \* is not handed out twice in one behaviour)
    pc,          \* position of the running ensure_connection call
    url,         \* its `url` argument (NoUrl: None)
    st,          \* its local `state` (the record it loaded)
    child,       \* pid of the process it spawned, 0 when none
    ws_uri,      \* parser local ws_uri (NoUrl: None)
    app_id,      \* parser local app_id (NoApp: None)
    nlines,      \* lines the parser has read
    ret,         \* what the call returned
    trace,       \* side effects of the running / last call, in order
    store0,      \* the state file when the call began
    foundDead,   \* pids the call found dead with is_pid_alive
    terminated,  \* pids the call ran kill_process on
    wasDead,     \* whether the recorded process was gone when the call probed it
    \* ---- what the call waits for
    stdoutReady,    \* what the reader of the child's stdout yields next:
                    \* "item" (a line or a read error), "end" (the stream
                    \* has ended), "no" (nothing yet: the read blocks)
    deadlinePassed, \* Instant::now() > deadline of the handshake parser
    pingAnswered,   \* the probed endpoint has answered the ping or closed
    lastLine,       \* the last line the parser handled
    seenApps,       \* appIds announced by the app.debugPort lines it handled
    \* ---- kill_process called on its own
    killing,        \* pid kill_process sleeps on between its signals, 0: none
    kills,          \* the calls of kill_process so far: pid, and whether the
                    \* process was already gone when the call began
    \* ---- State::save / load / remove on the file itself
    file,           \* text of the state file (NoFile: the path does not exist)
    saved,          \* the State of the last save that succeeded
    opRes,          \* what the last State operation returned
    lastWrite,      \* the last write to the file: "none", "save" (file
                    \* created), "resave" (file overwritten), "remove",
                    \* "failed_save"
    \* ---- State::is_pid_alive called on its own
    foreign,        \* pids of processes that belong to another user
    aliveRes,       \* the last call of is_pid_alive: pid, errno of
                    \* kill(pid, 0), value returned
    \* ---- two invocations of the tool on one project
    inv,            \* per invocation: position in ensure_connection, the
                    \* record it loaded, the pid it spawned, the endpoint
                    \* its parser returned
    saveOrder,      \* the invocations that saved, in the order of the saves
    \* ---- functions called on their own: arguments and value returned
    globRes,        \* glob_match
    treeRes,        \* format_tree
    parseRes        \* parse_flutter_machine_output

sendVars == <<next_id, wsState, inbox, awaiting, via, used, last, skipped>>
ensVars  == <<store, alive, nextPid, pc, url, st, child, ws_uri, app_id,
              nlines, ret, trace, store0, foundDead, terminated, wasDead,
              stdoutReady, deadlinePassed, pingAnswered, lastLine, seenApps,
              killing, kills>>
waitVars == <<stdoutReady, deadlinePassed, pingAnswered>>
lineVars == <<lastLine, seenApps>>
killVars == <<killing, kills>>
fileVars == <<file, saved, opRes, lastWrite>>
aliveVars == <<foreign, aliveRes>>
raceVars == <<inv, saveOrder>>
pureVars == <<globRes, treeRes, parseRes>>
auxVars  == <<fileVars, aliveVars, raceVars, pureVars>>
vars     == <<sendVars, ensVars, auxVars>>

\* ===================================================== vm_service.rs: send
\* JSON values of the fields of an inbound message
NoId     == 0      \* the message has no "id" member (or is no JSON object)
OddId    == -1     \* an "id" that is no integer (null, a string, 1.5)
NoRes    == -1     \* the message has no "result" member
EmptyObj == 0      \* serde_json::json!({})

\* the "error" member: absent, a JSON value that is no object (null, a
\* string), or an object whose code / message may be missing or mistyped
ErrAbsent == [k |-> "absent", hasCode |-> FALSE, code |-> 0,
              hasMsg |-> FALSE, message |-> ""]
ErrNull   == [k |-> "null", hasCode |-> FALSE, code |-> 0,
              hasMsg |-> FALSE, message |-> ""]
ErrFull   == [k |-> "obj", hasCode |-> TRUE, code |-> 7,
              hasMsg |-> TRUE, message |-> "boom"]
ErrBare   == [k |-> "obj", hasCode |-> FALSE, code |-> 0,
              hasMsg |-> FALSE, message |-> ""]
ErrVals   == {ErrAbsent, ErrNull, ErrFull, ErrBare}
ResVals   == {NoRes, 1}

\* what the stream yields: a text frame holding JSON ("text"), a text frame
\* that is not JSON ("garbled"), any other item (binary / ping / pong / close
\* frame, or an Err item) ("frame")
Garbled  == [typ |-> "garbled", id |-> NoId, err |-> ErrAbsent, res |-> NoRes]
Frame    == [typ |-> "frame", id |-> NoId, err |-> ErrAbsent, res |-> NoRes]
TextMsgs == [typ : {"text"}, id : 1..MaxSends, err : ErrVals, res : ResVals]
            \cup [typ : {"text"}, id : {OddId, NoId}, err : {ErrAbsent, ErrFull},
                  res : ResVals]
MsgSet   == TextMsgs \cup {Garbled, Frame}

NoMsg     == Frame
NoOutcome == [id |-> 0, kind |-> "none", val |-> NoRes,
              code |-> 0, message |-> "", src |-> NoMsg]

Outcome(id, kind, val, code, message, src) ==
    [id |-> id, kind |-> kind, val |-> val, code |-> code,
     message |-> message, src |-> src]

\* let id = self.next_id; self.next_id += 1;
AssignId_AfterWrite(n, wrote) ==
    [id |-> n, next |-> IF wrote THEN n + 1 ELSE n]

AssignId(n, wrote) == [id |-> n, next |-> n + 1]

\* resp.get("id") is Some(resp_id) and resp_id == json!(id)
IdMatches_Events(m, id) == m.id = NoId \/ m.id = id

IdMatches_Late(m, id) == m.id # NoId /\ m.id # OddId /\ m.id <= id

IdMatches(m, id) == m.id # NoId /\ m.id = id

\* the body of the read loop for one item of the stream:
\* what send does with message m while it waits for id
Handle_ResultFirst(m, id) ==
    IF m.typ = "frame" THEN [act |-> "skip", val |-> NoRes, code |-> 0, message |-> ""]
    ELSE IF m.typ = "garbled" THEN [act |-> "parse", val |-> NoRes, code |-> 0, message |-> ""]
    ELSE IF ~IdMatches(m, id) THEN [act |-> "skip", val |-> NoRes, code |-> 0, message |-> ""]
    ELSE IF m.res # NoRes THEN [act |-> "ok", val |-> m.res, code |-> 0, message |-> ""]
    ELSE IF m.err.k # "absent"
         THEN [act |-> "remote", val |-> NoRes,
               code |-> IF m.err.hasCode THEN m.err.code ELSE 0,
               message |-> IF m.err.hasMsg THEN m.err.message ELSE "unknown error"]
    ELSE [act |-> "ok", val |-> EmptyObj, code |-> 0, message |-> ""]

Handle(m, id) ==
    IF m.typ = "frame" THEN [act |-> "skip", val |-> NoRes, code |-> 0, message |-> ""]
    ELSE IF m.typ = "garbled" THEN [act |-> "parse", val |-> NoRes, code |-> 0, message |-> ""]
    ELSE IF ~IdMatches(m, id) THEN [act |-> "skip", val |-> NoRes, code |-> 0, message |-> ""]
    ELSE IF m.err.k # "absent"
         THEN [act |-> "remote", val |-> NoRes,
               code |-> IF m.err.hasCode THEN m.err.code ELSE 0,
               message |-> IF m.err.hasMsg THEN m.err.message ELSE "unknown error"]
    ELSE [act |-> "ok", val |-> IF m.res = NoRes THEN EmptyObj ELSE m.res,
          code |-> 0, message |-> ""]

\* a discarded JSON message: an event (no id) or a response to another request
SkipKind(m) == IF m.id = NoId THEN "event" ELSE "stale"

\* send, up to and including the write of the request; ping is send
\* ("getVersion") with the result reduced to is_ok()
SendBegin(v, wrote) ==
    /\ wsState \in {"open", "peerClosed", "closed"}
    /\ awaiting = 0
    /\ Len(used) < MaxSends
    /\ wsState = "closed" => ~wrote
    /\ LET a == AssignId(next_id, wrote) IN
         /\ next_id' = a.next
         /\ used' = Append(used, a.id)
         /\ via' = v
         /\ IF wrote
            THEN /\ awaiting' = a.id
                 /\ last' = last
            ELSE /\ awaiting' = 0
                 /\ last' = Outcome(a.id, "write", NoRes, 0, "", NoMsg)
    /\ skipped' = {}
    /\ UNCHANGED <<wsState, inbox>>
    /\ UNCHANGED ensVars
    /\ UNCHANGED auxVars

\* one turn of `while let Some(msg) = self.ws.next().await`
SendRecv ==
    /\ awaiting # 0
    /\ inbox # <<>>
    /\ LET m == Head(inbox)
           h == Handle(m, awaiting) IN
         /\ inbox' = Tail(inbox)
         /\ IF h.act = "skip"
            THEN /\ skipped' = skipped \cup (IF m.typ = "text" THEN {SkipKind(m)} ELSE {})
                 /\ UNCHANGED <<awaiting, last>>
            ELSE /\ awaiting' = 0
                 /\ last' = Outcome(awaiting, h.act, h.val, h.code,
                                    h.message, m)
                 /\ skipped' = skipped
    /\ UNCHANGED <<next_id, wsState, via, used>>
    /\ UNCHANGED ensVars
    /\ UNCHANGED auxVars

\* the stream returns None: Err("WebSocket closed without response")
SendClosed_OkEmpty ==
    /\ awaiting # 0
    /\ inbox = <<>>
    /\ wsState \in {"peerClosed", "closed"}
    /\ wsState' = "closed"
    /\ awaiting' = 0
    /\ last' = Outcome(awaiting, "ok", EmptyObj, 0, "", NoMsg)
    /\ UNCHANGED <<next_id, inbox, via, used, skipped>>
    /\ UNCHANGED ensVars
    /\ UNCHANGED auxVars

SendClosed_Reconnect ==
    /\ awaiting # 0
    /\ inbox = <<>>
    /\ wsState \in {"peerClosed", "closed"}
    /\ wsState' = "open"
    /\ awaiting' = 0
    /\ last' = Outcome(awaiting, "closed", NoRes, 0, "", NoMsg)
    /\ UNCHANGED <<next_id, inbox, via, used, skipped>>
    /\ UNCHANGED ensVars
    /\ UNCHANGED auxVars

SendClosed ==
    /\ awaiting # 0
    /\ inbox = <<>>
    /\ wsState \in {"peerClosed", "closed"}
    /\ wsState' = "closed"
    /\ awaiting' = 0
    /\ last' = Outcome(awaiting, "closed", NoRes, 0, "", NoMsg)
    /\ UNCHANGED <<next_id, inbox, via, used, skipped>>
    /\ UNCHANGED ensVars
    /\ UNCHANGED auxVars

\* the peer writes a message
ServerEmit(m) ==
    /\ wsState = "open"
    /\ Len(inbox) < MaxInbox
    /\ inbox' = Append(inbox, m)
    /\ UNCHANGED <<next_id, wsState, awaiting, via, used, last, skipped>>
    /\ UNCHANGED ensVars
    /\ UNCHANGED auxVars

\* the peer closes the connection
ServerClose ==
    /\ wsState = "open"
    /\ wsState' = "peerClosed"
    /\ UNCHANGED <<next_id, inbox, awaiting, via, used, last, skipped>>
    /\ UNCHANGED ensVars
    /\ UNCHANGED auxVars

\* ping(): self.send("getVersion", {}).await.is_ok()
PingValue_Answered(o) == o.kind \in {"ok", "remote"}

PingValue(o) == o.kind = "ok"

\* send run to its end over a finite stream that closes after its last
\* message (used where a whole send is one step of a caller)
RECURSIVE RunSend(_, _)
RunSend(id, stream) ==
    IF stream = <<>> THEN "closed"
    ELSE LET h == Handle(Head(stream), id) IN
         IF h.act = "skip" THEN RunSend(id, Tail(stream)) ELSE h.act

\* VmServiceConnection::connect: connect_async fails (Err, no Self) or
\* Ok(Self { ws, next_id: 1 })
Connect(ok) ==
    /\ wsState = "connecting"
    /\ wsState' = IF ok THEN "open" ELSE "failed"
    /\ next_id' = IF ok THEN 1 ELSE next_id
    /\ UNCHANGED <<inbox, awaiting, via, used, last, skipped>>
    /\ UNCHANGED ensVars
    /\ UNCHANGED auxVars

\* VmServiceConnection::connect has been called and has not returned
InitSend ==
    /\ next_id = 0
    /\ wsState = "connecting"
    /\ inbox = <<>>
    /\ awaiting = 0
    /\ via = "send"
    /\ used = <<>>
    /\ last = NoOutcome
    /\ skipped = {}

NextSend ==
    \/ \E ok \in BOOLEAN : Connect(ok)
    \/ \E v \in {"send", "ping"}, wrote \in BOOLEAN : SendBegin(v, wrote)
    \/ SendRecv
    \/ SendClosed
    \/ \E m \in MsgSet : ServerEmit(m)
    \/ ServerClose


\* ================================================= state.rs and process.rs
NoUrl  == "none"
NoApp  == "none"
Urls   == {"ws_a", "ws_b"}
AppIds == {"app1"}

\* struct State { pid, ws_uri, app_id, .. } as stored in the state file
Rec(pid, uri, app) == [pid |-> pid, ws_uri |-> uri, app_id |-> app]
NoRec == Rec(0, NoUrl, NoApp)

\* what ensure_connection returns: Ok(VmServiceConnection) or Err
NoRet    == [ok |-> FALSE, err |-> "running", ep |-> NoUrl, next_id |-> 0]
Ok(ep, n) == [ok |-> TRUE, err |-> "", ep |-> ep, next_id |-> n]
Err(e)   == [ok |-> FALSE, err |-> e, ep |-> NoUrl, next_id |-> 0]

\* one side effect of a call
Ev(e, pid, ep) == [e |-> e, pid |-> pid, ep |-> ep]
Has(e)   == \E i \in DOMAIN trace : trace[i].e = e
HasP(e, p) == \E i \in DOMAIN trace : trace[i].e = e /\ trace[i].pid = p
Before(e, f) ==
    \A j \in DOMAIN trace : trace[j].e = f =>
        \E i \in DOMAIN trace : i < j /\ trace[i].e = e

\* libc::kill(pid, 0): 0 when the signal could be sent, else -1 with errno
\* ESRCH (no such process) or EPERM (the process exists and belongs to
\* another user)
KillZero(pid) ==
    IF pid \notin alive THEN "ESRCH"
    ELSE IF pid \in foreign THEN "EPERM"
    ELSE "0"

\* State::is_pid_alive: libc::kill(pid, 0) == 0
IsPidAlive_Always(pid) == TRUE

IsPidAlive(pid) == KillZero(pid) = "0"

\* kill_process: SIGTERM, sleep 500 ms, SIGKILL
KillSignals(pid) == <<Ev("SIGTERM", pid, NoUrl), Ev("SIGKILL", pid, NoUrl)>>

\* the lines of `flutter run --machine`: text that is no JSON, the empty
\* array, or an event object, bare or as first element of an array
Junk     == [form |-> "junk", ev |-> "", uri |-> NoUrl, app |-> NoApp]
EmptyArr == [form |-> "emptyarr", ev |-> "", uri |-> NoUrl, app |-> NoApp]
PortLines  == [form : {"bare", "array"}, ev : {"app.debugPort"},
               uri : Urls \cup {NoUrl}, app : AppIds \cup {NoApp}]
PlainLines == [form : {"bare", "array"},
               ev : {"app.started", "app.stop", "daemon.shutdown", "other"},
               uri : {NoUrl}, app : {NoApp}]
LineSet  == PortLines \cup PlainLines \cup {Junk, EmptyArr}

\* the event the parser inspects for a line: serde_json::from_str fails
\* (continue), the array is unwrapped to its first element (continue when
\* empty), event.get("event").as_str()
EventOf_NoUnwrap(line) ==
    IF line.form \in {"junk", "emptyarr"} THEN "skip"
    ELSE IF line.form = "array" THEN "other"
    ELSE line.ev

EventOf(line) ==
    IF line.form \in {"junk", "emptyarr"} THEN "skip" ELSE line.ev

\* ensure_connection is called (one invocation of the tool)
EnsureCall(u) ==
    /\ pc \in {"idle", "done"}
    /\ url' = u
    /\ st' = NoRec
    /\ child' = 0
    /\ ws_uri' = NoUrl
    /\ app_id' = NoApp
    /\ nlines' = 0
    /\ ret' = NoRet
    /\ trace' = <<>>
    /\ store0' = store
    /\ foundDead' = {}
    /\ terminated' = {}
    /\ wasDead' = FALSE
    /\ stdoutReady' = "no"
    /\ deadlinePassed' = FALSE
    /\ pingAnswered' = FALSE
    /\ lastLine' = Junk
    /\ seenApps' = {}
    /\ pc' = IF u # NoUrl THEN "connect_url" ELSE "load"
    /\ UNCHANGED <<store, alive, nextPid>>
    /\ UNCHANGED <<killVars>>
    /\ UNCHANGED sendVars
    /\ UNCHANGED auxVars

\* if let Some(url) = url { return VmServiceConnection::connect(url).await; }
ConnectUrl_Fallback(ok) ==
    /\ pc = "connect_url"
    /\ trace' = Append(trace, Ev(IF ok THEN "connect" ELSE "connect_failed", 0, url))
    /\ ret' = IF ok THEN Ok(url, 1) ELSE ret
    /\ pc' = IF ok THEN "done" ELSE "load"
    /\ UNCHANGED <<store, alive, nextPid, url, st, child, ws_uri, app_id,
                   nlines, store0, foundDead, terminated, wasDead>>
    /\ UNCHANGED <<waitVars, lineVars, killVars>>
    /\ UNCHANGED sendVars
    /\ UNCHANGED auxVars

ConnectUrl(ok) ==
    /\ pc = "connect_url"
    /\ trace' = Append(trace, Ev(IF ok THEN "connect" ELSE "connect_failed", 0, url))
    /\ ret' = IF ok THEN Ok(url, 1) ELSE Err("connect")
    /\ pc' = "done"
    /\ UNCHANGED <<store, alive, nextPid, url, st, child, ws_uri, app_id,
                   nlines, store0, foundDead, terminated, wasDead>>
    /\ UNCHANGED <<waitVars, lineVars, killVars>>
    /\ UNCHANGED sendVars
    /\ UNCHANGED auxVars

\* State::load(project_dir)?
Load(ok) ==
    /\ pc = "load"
    /\ store = NoRec => ok
    /\ trace' = Append(trace, Ev("load", 0, NoUrl))
    /\ IF ok
       THEN /\ st' = store
            /\ pc' = IF store = NoRec THEN "launch" ELSE "alive"
            /\ ret' = ret
       ELSE /\ st' = st
            /\ pc' = "done"
            /\ ret' = Err("load")
    /\ UNCHANGED <<store, alive, nextPid, url, child, ws_uri, app_id,
                   nlines, store0, foundDead, terminated, wasDead>>
    /\ UNCHANGED <<waitVars, lineVars, killVars>>
    /\ UNCHANGED sendVars
    /\ UNCHANGED auxVars

\* if state.is_pid_alive() { .. }
CheckAlive ==
    /\ pc = "alive"
    /\ wasDead' = (st.pid \notin alive)
    /\ trace' = Append(trace, Ev("kill0", st.pid, NoUrl))
    /\ IF IsPidAlive(st.pid)
       THEN /\ pc' = "probe"
            /\ foundDead' = foundDead
       ELSE /\ pc' = "remove"
            /\ foundDead' = foundDead \cup {st.pid}
    /\ UNCHANGED <<store, alive, nextPid, url, st, child, ws_uri, app_id,
                   nlines, ret, store0, terminated>>
    /\ UNCHANGED <<waitVars, lineVars, killVars>>
    /\ UNCHANGED sendVars
    /\ UNCHANGED auxVars

\* vm_service::try_connect(&state.ws_uri, 3000).await
ProbeConnect(c) ==
    /\ pc = "probe"
    /\ trace' = Append(trace, Ev(IF c = "ok" THEN "probe_ok" ELSE "probe_failed",
                                 st.pid, st.ws_uri))
    /\ pc' = IF c = "ok" THEN "ping" ELSE "kill_old"
    /\ UNCHANGED <<store, alive, nextPid, url, st, child, ws_uri, app_id,
                   nlines, ret, store0, foundDead, terminated, wasDead>>
    /\ UNCHANGED <<waitVars, lineVars, killVars>>
    /\ UNCHANGED sendVars
    /\ UNCHANGED auxVars

\* && conn.ping().await { return Ok(conn); }
ProbePing_Restart(stream) ==
    /\ pc = "ping"
    /\ pingAnswered
    /\ LET pong == PingValue([kind |-> RunSend(1, stream)]) IN
         /\ trace' = Append(trace, Ev(IF pong THEN "ping_ok" ELSE "ping_false",
                                      0, st.ws_uri))
         /\ pc' = "kill_old"
         /\ ret' = ret
    /\ UNCHANGED <<store, alive, nextPid, url, st, child, ws_uri, app_id,
                   nlines, store0, foundDead, terminated, wasDead>>
    /\ UNCHANGED <<waitVars, lineVars, killVars>>
    /\ UNCHANGED sendVars
    /\ UNCHANGED auxVars

ProbePing(stream) ==
    /\ pc = "ping"
    /\ pingAnswered
    /\ LET pong == PingValue([kind |-> RunSend(1, stream)]) IN
         /\ trace' = Append(trace, Ev(IF pong THEN "ping_ok" ELSE "ping_false",
                                      0, st.ws_uri))
         /\ pc' = IF pong THEN "done" ELSE "kill_old"
         /\ ret' = IF pong THEN Ok(st.ws_uri, 2) ELSE ret
    /\ UNCHANGED <<store, alive, nextPid, url, st, child, ws_uri, app_id,
                   nlines, store0, foundDead, terminated, wasDead>>
    /\ UNCHANGED <<waitVars, lineVars, killVars>>
    /\ UNCHANGED sendVars
    /\ UNCHANGED auxVars

\* kill_process(state.pid) after "VM Service unreachable"
KillOld_Skip ==
    /\ pc = "kill_old"
    /\ pc' = "remove"
    /\ UNCHANGED <<store, alive, nextPid, url, st, child, ws_uri, app_id,
                   nlines, ret, trace, store0, foundDead, terminated, wasDead>>
    /\ UNCHANGED <<waitVars, lineVars, killVars>>
    /\ UNCHANGED sendVars
    /\ UNCHANGED auxVars

KillOld ==
    /\ pc = "kill_old"
    /\ trace' = trace \o KillSignals(st.pid)
    /\ alive' = alive \ {st.pid}
    /\ terminated' = terminated \cup {st.pid}
    /\ pc' = "remove"
    /\ UNCHANGED <<store, nextPid, url, st, child, ws_uri, app_id,
                   nlines, ret, store0, foundDead, wasDead>>
    /\ UNCHANGED <<waitVars, lineVars, killVars>>
    /\ UNCHANGED sendVars
    /\ UNCHANGED auxVars

\* State::remove(project_dir)?
Remove_Keep(ok) ==
    /\ pc = "remove"
    /\ store = NoRec => ok
    /\ trace' = Append(trace, Ev(IF ok THEN "remove" ELSE "remove_failed",
                                 0, NoUrl))
    /\ IF ok
       THEN /\ store' = store
            /\ pc' = "launch"
            /\ ret' = ret
       ELSE /\ store' = store
            /\ pc' = "done"
            /\ ret' = Err("remove")
    /\ UNCHANGED <<alive, nextPid, url, st, child, ws_uri, app_id,
                   nlines, store0, foundDead, terminated, wasDead>>
    /\ UNCHANGED <<waitVars, lineVars, killVars>>
    /\ UNCHANGED sendVars
    /\ UNCHANGED auxVars

Remove(ok) ==
    /\ pc = "remove"
    /\ store = NoRec => ok
    /\ trace' = Append(trace, Ev(IF ok THEN "remove" ELSE "remove_failed",
                                 0, NoUrl))
    /\ IF ok
       THEN /\ store' = NoRec
            /\ pc' = "launch"
            /\ ret' = ret
       ELSE /\ store' = store
            /\ pc' = "done"
            /\ ret' = Err("remove")
    /\ UNCHANGED <<alive, nextPid, url, st, child, ws_uri, app_id,
                   nlines, store0, foundDead, terminated, wasDead>>
    /\ UNCHANGED <<waitVars, lineVars, killVars>>
    /\ UNCHANGED sendVars
    /\ UNCHANGED auxVars

\* start_flutter_run up to the spawn: Config::load?, create_dir_all?,
\* File::create?, Command::spawn()
Launch(o) ==
    /\ pc = "launch"
    /\ o = "ok" => nextPid <= MaxPid
    /\ IF o = "ok"
       THEN /\ child' = nextPid
            /\ nextPid' = nextPid + 1
            /\ alive' = alive \cup {nextPid}
            /\ trace' = trace \o <<Ev("launch", 0, NoUrl), Ev("spawn", nextPid, NoUrl)>>
            /\ pc' = "parse"
            /\ ret' = ret
       ELSE /\ trace' = Append(trace, Ev("launch", 0, NoUrl))
            /\ pc' = "done"
            /\ ret' = Err(o)
            /\ UNCHANGED <<child, nextPid, alive>>
    /\ UNCHANGED <<store, url, st, ws_uri, app_id, nlines, store0,
                   foundDead, terminated, wasDead>>
    /\ UNCHANGED <<waitVars, lineVars, killVars>>
    /\ UNCHANGED sendVars
    /\ UNCHANGED auxVars

\* State::remove(project_dir).ok() in the parser: a failure is dropped
RemoveQuiet(ok) ==
    /\ store = NoRec => ok
    /\ store' = IF ok THEN NoRec ELSE store

\* parse_flutter_machine_output: the deadline is compared with the clock
\* only in the body of `for line in reader.lines()`, when the reader has
\* yielded a line or a read error
ParseTimeout(rm) ==
    /\ pc = "parse"
    /\ stdoutReady = "item"
    /\ deadlinePassed
    /\ stdoutReady' = "no"
    /\ UNCHANGED <<deadlinePassed, pingAnswered>>
    /\ nlines < MaxLines
    /\ RemoveQuiet(rm)
    /\ trace' = trace \o KillSignals(child)
                      \o <<Ev(IF rm THEN "remove" ELSE "remove_failed", 0, NoUrl)>>
    /\ alive' = alive \ {child}
    /\ terminated' = terminated \cup {child}
    /\ ret' = Err("timeout")
    /\ pc' = "done"
    /\ UNCHANGED <<nextPid, url, st, child, ws_uri, app_id, nlines, store0,
                   foundDead, wasDead>>
    /\ UNCHANGED <<lineVars, killVars>>
    /\ UNCHANGED sendVars
    /\ UNCHANGED auxVars

\* the reader yields Err(e): "Error reading flutter stdout"
ParseReadError ==
    /\ pc = "parse"
    /\ stdoutReady = "item"
    /\ ~deadlinePassed
    /\ stdoutReady' = "no"
    /\ UNCHANGED <<deadlinePassed, pingAnswered>>
    /\ nlines < MaxLines
    /\ ret' = Err("read")
    /\ pc' = "done"
    /\ UNCHANGED <<store, alive, nextPid, url, st, child, ws_uri, app_id,
                   nlines, trace, store0, foundDead, terminated, wasDead>>
    /\ UNCHANGED <<lineVars, killVars>>
    /\ UNCHANGED sendVars
    /\ UNCHANGED auxVars

\* one line before the deadline: the body of the for loop
ParseLine_WaitStarted(line, rm) ==
    /\ pc = "parse"
    /\ stdoutReady = "item"
    /\ ~deadlinePassed
    /\ stdoutReady' = "no"
    /\ UNCHANGED <<deadlinePassed, pingAnswered>>
    /\ nlines < MaxLines
    /\ nlines' = nlines + 1
    /\ lastLine' = line
    /\ seenApps' = IF EventOf(line) = "app.debugPort" /\ line.app # NoApp
                   THEN seenApps \cup {line.app} ELSE seenApps
    /\ LET ev  == EventOf(line)
           uri == IF ev = "app.debugPort" /\ line.uri # NoUrl THEN line.uri ELSE ws_uri
           app == IF ev = "app.debugPort" /\ line.app # NoApp THEN line.app ELSE app_id
       IN IF ev \in {"app.stop", "daemon.shutdown"}
          THEN /\ RemoveQuiet(rm)
               /\ trace' = Append(trace, Ev(IF rm THEN "remove" ELSE "remove_failed",
                                            0, NoUrl))
               /\ ret' = Err("aborted")
               /\ pc' = "done"
               /\ UNCHANGED <<ws_uri, app_id>>
          ELSE /\ rm
               /\ ws_uri' = uri
               /\ app_id' = app
               /\ pc' = IF uri # NoUrl /\ ev = "app.started" THEN "save" ELSE "parse"
               /\ UNCHANGED <<store, trace, ret>>
    /\ UNCHANGED <<alive, nextPid, url, st, child, store0, foundDead,
                   terminated, wasDead>>
    /\ UNCHANGED <<killVars>>
    /\ UNCHANGED sendVars
    /\ UNCHANGED auxVars

ParseLine(line, rm) ==
    /\ pc = "parse"
    /\ stdoutReady = "item"
    /\ ~deadlinePassed
    /\ stdoutReady' = "no"
    /\ UNCHANGED <<deadlinePassed, pingAnswered>>
    /\ nlines < MaxLines
    /\ nlines' = nlines + 1
    /\ lastLine' = line
    /\ seenApps' = IF EventOf(line) = "app.debugPort" /\ line.app # NoApp
                   THEN seenApps \cup {line.app} ELSE seenApps
    /\ LET ev  == EventOf(line)
           uri == IF ev = "app.debugPort" /\ line.uri # NoUrl THEN line.uri ELSE ws_uri
           app == IF ev = "app.debugPort" /\ line.app # NoApp THEN line.app ELSE app_id
       IN IF ev \in {"app.stop", "daemon.shutdown"}
          THEN /\ RemoveQuiet(rm)
               /\ trace' = Append(trace, Ev(IF rm THEN "remove" ELSE "remove_failed",
                                            0, NoUrl))
               /\ ret' = Err("aborted")
               /\ pc' = "done"
               /\ UNCHANGED <<ws_uri, app_id>>
          ELSE /\ rm
               /\ ws_uri' = uri
               /\ app_id' = app
               /\ pc' = IF uri # NoUrl THEN "save" ELSE "parse"
               /\ UNCHANGED <<store, trace, ret>>
    /\ UNCHANGED <<alive, nextPid, url, st, child, store0, foundDead,
                   terminated, wasDead>>
    /\ UNCHANGED <<killVars>>
    /\ UNCHANGED sendVars
    /\ UNCHANGED auxVars

\* the stream ends with ws_uri = None: kill, remove, "exited without
\* providing VM Service URI"
ParseEof_NoKill(rm) ==
    /\ pc = "parse"
    /\ stdoutReady = "end"
    /\ stdoutReady' = "no"
    /\ UNCHANGED <<deadlinePassed, pingAnswered>>
    /\ RemoveQuiet(rm)
    /\ trace' = Append(trace, Ev(IF rm THEN "remove" ELSE "remove_failed", 0, NoUrl))
    /\ UNCHANGED <<alive, terminated>>
    /\ ret' = Err("noendpoint")
    /\ pc' = "done"
    /\ UNCHANGED <<nextPid, url, st, child, ws_uri, app_id, nlines, store0,
                   foundDead, wasDead>>
    /\ UNCHANGED <<lineVars, killVars>>
    /\ UNCHANGED sendVars
    /\ UNCHANGED auxVars

ParseEof(rm) ==
    /\ pc = "parse"
    /\ stdoutReady = "end"
    /\ stdoutReady' = "no"
    /\ UNCHANGED <<deadlinePassed, pingAnswered>>
    /\ RemoveQuiet(rm)
    /\ trace' = trace \o KillSignals(child)
                      \o <<Ev(IF rm THEN "remove" ELSE "remove_failed", 0, NoUrl)>>
    /\ alive' = alive \ {child}
    /\ terminated' = terminated \cup {child}
    /\ ret' = Err("noendpoint")
    /\ pc' = "done"
    /\ UNCHANGED <<nextPid, url, st, child, ws_uri, app_id, nlines, store0,
                   foundDead, wasDead>>
    /\ UNCHANGED <<lineVars, killVars>>
    /\ UNCHANGED sendVars
    /\ UNCHANGED auxVars

\* state.save(project_dir)?
Save(ok) ==
    /\ pc = "save"
    /\ trace' = Append(trace, Ev(IF ok THEN "save" ELSE "save_failed", child, ws_uri))
    /\ IF ok
       THEN /\ store' = Rec(child, ws_uri, app_id)
            /\ pc' = "connect_new"
            /\ ret' = ret
       ELSE /\ store' = store
            /\ pc' = "done"
            /\ ret' = Err("save")
    /\ UNCHANGED <<alive, nextPid, url, st, child, ws_uri, app_id, nlines,
                   store0, foundDead, terminated, wasDead>>
    /\ UNCHANGED <<waitVars, lineVars, killVars>>
    /\ UNCHANGED sendVars
    /\ UNCHANGED auxVars

\* let conn = VmServiceConnection::connect(&ws_uri).await?; Ok(conn)
ConnectNew_Retry(ok) ==
    /\ pc = "connect_new"
    /\ trace' = Append(trace, Ev(IF ok THEN "connect" ELSE "connect_failed",
                                 child, ws_uri))
    /\ ret' = IF ok THEN Ok(ws_uri, 1) ELSE ret
    /\ pc' = IF ok THEN "done" ELSE "launch"
    /\ UNCHANGED <<store, alive, nextPid, url, st, child, ws_uri, app_id,
                   nlines, store0, foundDead, terminated, wasDead>>
    /\ UNCHANGED <<waitVars, lineVars, killVars>>
    /\ UNCHANGED sendVars
    /\ UNCHANGED auxVars

ConnectNew(ok) ==
    /\ pc = "connect_new"
    /\ trace' = Append(trace, Ev(IF ok THEN "connect" ELSE "connect_failed",
                                 child, ws_uri))
    /\ ret' = IF ok THEN Ok(ws_uri, 1) ELSE Err("connect")
    /\ pc' = "done"
    /\ UNCHANGED <<store, alive, nextPid, url, st, child, ws_uri, app_id,
                   nlines, store0, foundDead, terminated, wasDead>>
    /\ UNCHANGED <<waitVars, lineVars, killVars>>
    /\ UNCHANGED sendVars
    /\ UNCHANGED auxVars

\* the spawned process writes a line or closes its stdout, or the read of
\* its stdout fails: reader.lines() has its next item
ProcOutput(k) ==
    /\ pc = "parse"
    /\ stdoutReady = "no"
    /\ k = "item" => nlines < MaxLines
    /\ stdoutReady' = k
    /\ UNCHANGED <<store, alive, nextPid, pc, url, st, child, ws_uri, app_id,
                   nlines, ret, trace, store0, foundDead, terminated, wasDead>>
    /\ UNCHANGED <<deadlinePassed, pingAnswered, lineVars, killVars>>
    /\ UNCHANGED sendVars
    /\ UNCHANGED auxVars

\* 120 s have passed since the parser computed its deadline
DeadlinePasses ==
    /\ pc = "parse"
    /\ ~deadlinePassed
    /\ deadlinePassed' = TRUE
    /\ UNCHANGED <<store, alive, nextPid, pc, url, st, child, ws_uri, app_id,
                   nlines, ret, trace, store0, foundDead, terminated, wasDead>>
    /\ UNCHANGED <<stdoutReady, pingAnswered, lineVars, killVars>>
    /\ UNCHANGED sendVars
    /\ UNCHANGED auxVars

\* the probed endpoint sends what ends the read loop of the ping (the
\* response, a text that is no JSON) or closes the connection
EndpointAnswers ==
    /\ pc = "ping"
    /\ ~pingAnswered
    /\ pingAnswered' = TRUE
    /\ UNCHANGED <<store, alive, nextPid, pc, url, st, child, ws_uri, app_id,
                   nlines, ret, trace, store0, foundDead, terminated, wasDead>>
    /\ UNCHANGED <<stdoutReady, deadlinePassed, lineVars, killVars>>
    /\ UNCHANGED sendVars
    /\ UNCHANGED auxVars

\* a process exits on its own
ProcDies(p) ==
    /\ p \in alive
    /\ alive' = alive \ {p}
    /\ UNCHANGED <<store, nextPid, pc, url, st, child, ws_uri, app_id, nlines,
                   ret, trace, store0, foundDead, terminated, wasDead>>
    /\ UNCHANGED <<waitVars, lineVars, killVars>>
    /\ UNCHANGED sendVars
    /\ UNCHANGED auxVars

\* the streams a probed endpoint may answer the ping with
ProbeMsgs == {m \in MsgSet : m.id \in {NoId, 1, 2} /\ m.err \in {ErrAbsent, ErrFull}}
PingStreams == UNION {[1..n -> ProbeMsgs] : n \in 0..2}

\* ------------------------------------------- kill_process called on its own
\* a flutter process is running that an earlier invocation spawned
Spawned ==
    /\ nextPid <= MaxPid
    /\ alive' = alive \cup {nextPid}
    /\ nextPid' = nextPid + 1
    /\ UNCHANGED <<store, pc, url, st, child, ws_uri, app_id, nlines, ret,
                   trace, store0, foundDead, terminated, wasDead>>
    /\ UNCHANGED <<waitVars, lineVars, killVars>>
    /\ UNCHANGED sendVars
    /\ UNCHANGED auxVars

\* the state file as an earlier invocation left it: saved or removed
Recorded(r) ==
    /\ r # store
    /\ store' = r
    /\ UNCHANGED <<alive, nextPid, pc, url, st, child, ws_uri, app_id, nlines,
                   ret, trace, store0, foundDead, terminated, wasDead>>
    /\ UNCHANGED <<waitVars, lineVars, killVars>>
    /\ UNCHANGED sendVars
    /\ UNCHANGED auxVars

\* kill_process(pid): libc::kill(pid, SIGTERM), its result ignored; within
\* the 500 ms sleep the process may exit or not
KillTerm(p, exits) ==
    /\ killing = 0
    /\ Len(kills) < MaxKills
    /\ killing' = p
    /\ kills' = Append(kills, [pid |-> p, gone |-> p \notin alive])
    /\ trace' = Append(trace, KillSignals(p)[1])
    /\ alive' = IF exits THEN alive \ {p} ELSE alive
    /\ UNCHANGED <<store, nextPid, pc, url, st, child, ws_uri, app_id, nlines,
                   ret, store0, foundDead, terminated, wasDead>>
    /\ UNCHANGED <<waitVars, lineVars>>
    /\ UNCHANGED sendVars
    /\ UNCHANGED auxVars

\* after the sleep: libc::kill(pid, SIGKILL), its result ignored
KillKill_IfAlive ==
    /\ killing # 0
    /\ killing' = 0
    /\ trace' = IF killing \in alive THEN Append(trace, KillSignals(killing)[2])
                 ELSE trace
    /\ alive' = alive \ {killing}
    /\ UNCHANGED <<store, nextPid, pc, url, st, child, ws_uri, app_id, nlines,
                   ret, store0, foundDead, terminated, wasDead, kills>>
    /\ UNCHANGED <<waitVars, lineVars>>
    /\ UNCHANGED sendVars
    /\ UNCHANGED auxVars

KillKill ==
    /\ killing # 0
    /\ killing' = 0
    /\ trace' = Append(trace, KillSignals(killing)[2])
    /\ alive' = alive \ {killing}
    /\ UNCHANGED <<store, nextPid, pc, url, st, child, ws_uri, app_id, nlines,
                   ret, store0, foundDead, terminated, wasDead, kills>>
    /\ UNCHANGED <<waitVars, lineVars>>
    /\ UNCHANGED sendVars
    /\ UNCHANGED auxVars

NextKill ==
    \/ Spawned
    \/ \E r \in {Rec(q, u, NoApp) : q \in 1..(nextPid - 1), u \in Urls}
                \cup {NoRec} : Recorded(r)
    \/ \E p \in 1..MaxPid : ProcDies(p)
    \/ \E p \in 1..MaxPid, exits \in BOOLEAN : KillTerm(p, exits)
    \/ KillKill

InitEnsure ==
    /\ store = NoRec
    /\ alive = {}
    /\ nextPid = 1
    /\ pc = "idle"
    /\ url = NoUrl
    /\ st = NoRec
    /\ child = 0
    /\ ws_uri = NoUrl
    /\ app_id = NoApp
    /\ nlines = 0
    /\ ret = NoRet
    /\ trace = <<>>
    /\ store0 = NoRec
    /\ foundDead = {}
    /\ terminated = {}
    /\ wasDead = FALSE
    /\ stdoutReady = "no"
    /\ deadlinePassed = FALSE
    /\ pingAnswered = FALSE
    /\ lastLine = Junk
    /\ seenApps = {}
    /\ killing = 0
    /\ kills = <<>>

NextEnsure ==
    \/ \E u \in Urls \cup {NoUrl} : EnsureCall(u)
    \/ \E ok \in BOOLEAN : ConnectUrl(ok)
    \/ \E ok \in BOOLEAN : Load(ok)
    \/ CheckAlive
    \/ \E c \in {"ok", "refused", "timeout"} : ProbeConnect(c)
    \/ \E s \in PingStreams : ProbePing(s)
    \/ KillOld
    \/ \E ok \in BOOLEAN : Remove(ok)
    \/ \E o \in {"ok", "config", "stderr", "spawn"} : Launch(o)
    \/ \E rm \in BOOLEAN : ParseTimeout(rm)
    \/ ParseReadError
    \/ \E line \in LineSet, rm \in BOOLEAN : ParseLine(line, rm)
    \/ \E rm \in BOOLEAN : ParseEof(rm)
    \/ \E ok \in BOOLEAN : Save(ok)
    \/ \E ok \in BOOLEAN : ConnectNew(ok)
    \/ \E p \in 1..MaxPid : ProcDies(p)
    \/ \E k \in {"item", "end"} : ProcOutput(k)
    \/ DeadlinePasses
    \/ EndpointAnswers

\* ========================================= state.rs: save, load, remove
\* strings in a State: launch arguments kept in a record
MaxArgs == 2

\* the characters of a String: a letter, the double quote, the backslash
Chars == {"a", "dq", "bs"}
\* Option<String>::None
None == <<"None">>
\* no file at state_file_path(project_dir)
NoFile == <<"absent">>

\* struct State, all six fields
FullState(pid, uri, app, cwd, args, at) ==
    [pid |-> pid, ws_uri |-> uri, app_id |-> app, cwd |-> cwd, args |-> args,
     started_at |-> at]
NoState == FullState(0, <<>>, None, <<>>, <<>>, 0)

ArgLists == UNION {[1..n -> {<<>>, <<"dq">>}] : n \in 0..MaxArgs}
StateSet ==
    {FullState(pid, uri, app, <<"a", "bs">>, args, at) :
        pid \in {1, 12}, uri \in {<<"a">>, <<"dq", "bs">>},
        app \in {None, <<"a">>, <<"bs", "dq">>}, args \in ArgLists,
        at \in {0, 305}}

\* serde_json::to_string_pretty(self): the JSON text as a sequence of tokens
\* (whitespace left out); an integer is written in decimal
DigitTok == <<"0", "1", "2", "3", "4", "5", "6", "7", "8", "9">>
RECURSIVE JsonNumber(_)
JsonNumber(n) ==
    IF n < 10 THEN <<DigitTok[n + 1]>>
    ELSE Append(JsonNumber(n \div 10), DigitTok[(n % 10) + 1])

\* inside a JSON string the quote and the backslash are escaped
RECURSIVE Escape(_)
Escape(str) ==
    IF str = <<>> THEN <<>>
    ELSE (IF Head(str) \in {"dq", "bs"} THEN <<"bs", Head(str)>>
          ELSE <<Head(str)>>) \o Escape(Tail(str))

JsonString_Raw(str) == <<"dq">> \o str \o <<"dq">>

JsonString(str) == <<"dq">> \o Escape(str) \o <<"dq">>

\* Option<String>: null or the string
JsonOption(o) == IF o = None THEN <<"null">> ELSE JsonString(o)

\* Vec<String>
RECURSIVE JsonItems(_)
JsonItems(a) ==
    IF a = <<>> THEN <<>>
    ELSE IF Len(a) = 1 THEN JsonString(a[1])
    ELSE JsonString(a[1]) \o <<",">> \o JsonItems(Tail(a))
JsonArray(a) == <<"[">> \o JsonItems(a) \o <<"]">>

ToJson(state) ==
    <<"{", "pid", ":">> \o JsonNumber(state.pid)
    \o <<",", "ws_uri", ":">> \o JsonString(state.ws_uri)
    \o <<",", "app_id", ":">> \o JsonOption(state.app_id)
    \o <<",", "cwd", ":">> \o JsonString(state.cwd)
    \o <<",", "args", ":">> \o JsonArray(state.args)
    \o <<",", "started_at", ":">> \o JsonNumber(state.started_at)
    \o <<"}">>

\* serde_json::from_str::<State>: each reader returns whether it succeeded,
\* the value read and the position after it
Unread == [ok |-> FALSE, val |-> <<>>, next |-> 0]
Expect(t, i, toks) ==
    /\ i + Len(toks) - 1 <= Len(t)
    /\ SubSeq(t, i, i + Len(toks) - 1) = toks

RECURSIVE ReadChars(_, _, _)
ReadChars(t, i, acc) ==
    IF i > Len(t) THEN Unread
    ELSE IF t[i] = "dq" THEN [ok |-> TRUE, val |-> acc, next |-> i + 1]
    ELSE IF t[i] = "bs"
         THEN IF i + 1 <= Len(t) /\ t[i + 1] \in {"dq", "bs"}
              THEN ReadChars(t, i + 2, Append(acc, t[i + 1]))
              ELSE Unread
    ELSE IF t[i] \in Chars THEN ReadChars(t, i + 1, Append(acc, t[i]))
    ELSE Unread
ParseString(t, i) ==
    IF i <= Len(t) /\ t[i] = "dq" THEN ReadChars(t, i + 1, <<>>) ELSE Unread

DigitOf(tok) == (CHOOSE d \in 1..10 : DigitTok[d] = tok) - 1
IsDigit(tok) == \E d \in 1..10 : DigitTok[d] = tok
RECURSIVE ReadDigits(_, _, _)
ReadDigits(t, i, acc) ==
    IF i <= Len(t) /\ IsDigit(t[i])
    THEN ReadDigits(t, i + 1, 10 * acc + DigitOf(t[i]))
    ELSE [ok |-> TRUE, val |-> acc, next |-> i]
ParseNumber(t, i) ==
    IF i <= Len(t) /\ IsDigit(t[i]) THEN ReadDigits(t, i, 0)
    ELSE [ok |-> FALSE, val |-> 0, next |-> 0]

ParseOption(t, i) ==
    IF i <= Len(t) /\ t[i] = "null"
    THEN [ok |-> TRUE, val |-> None, next |-> i + 1]
    ELSE ParseString(t, i)

RECURSIVE ReadItems(_, _, _)
ReadItems(t, i, acc) ==
    LET item == ParseString(t, i) IN
    IF ~item.ok THEN Unread
    ELSE IF Expect(t, item.next, <<",">>)
         THEN ReadItems(t, item.next + 1, Append(acc, item.val))
    ELSE IF Expect(t, item.next, <<"]">>)
         THEN [ok |-> TRUE, val |-> Append(acc, item.val), next |-> item.next + 1]
    ELSE Unread
ParseArray(t, i) ==
    IF ~Expect(t, i, <<"[">>) THEN Unread
    ELSE IF Expect(t, i + 1, <<"]">>)
         THEN [ok |-> TRUE, val |-> <<>>, next |-> i + 2]
    ELSE ReadItems(t, i + 1, <<>>)

\* the members are read in the order save writes them
FromJson(t) ==
    LET pid  == IF Expect(t, 1, <<"{", "pid", ":">>)
                THEN ParseNumber(t, 4) ELSE Unread
        uri  == IF pid.ok /\ Expect(t, pid.next, <<",", "ws_uri", ":">>)
                THEN ParseString(t, pid.next + 3) ELSE Unread
        app  == IF uri.ok /\ Expect(t, uri.next, <<",", "app_id", ":">>)
                THEN ParseOption(t, uri.next + 3) ELSE Unread
        cwd  == IF app.ok /\ Expect(t, app.next, <<",", "cwd", ":">>)
                THEN ParseString(t, app.next + 3) ELSE Unread
        args == IF cwd.ok /\ Expect(t, cwd.next, <<",", "args", ":">>)
                THEN ParseArray(t, cwd.next + 3) ELSE Unread
        at   == IF args.ok /\ Expect(t, args.next, <<",", "started_at", ":">>)
                THEN ParseNumber(t, args.next + 3)
                ELSE [ok |-> FALSE, val |-> 0, next |-> 0]
    IN IF at.ok /\ Expect(t, at.next, <<"}">>) /\ at.next = Len(t)
       THEN [ok |-> TRUE,
             val |-> FullState(pid.val, uri.val, app.val, cwd.val, args.val,
                               at.val)]
       ELSE [ok |-> FALSE, val |-> NoState]

\* what a State operation returned: Ok / Err, and for load Some(state) / None
Returns(op, ok, some, val) == [op |-> op, ok |-> ok, some |-> some, val |-> val]

\* State::save: create_dir_all?, to_string_pretty, fs::write?; a failed
\* write may leave the file cut short
StateSave(state, o) ==
    /\ opRes' = Returns("save", o = "ok", FALSE, NoState)
    /\ IF o = "ok"
       THEN /\ file' = ToJson(state)
            /\ saved' = state
            /\ lastWrite' = IF file = NoFile THEN "save" ELSE "resave"
       ELSE /\ file' = IF o = "dir" THEN file ELSE SubSeq(ToJson(state), 1, 4)
            /\ lastWrite' = IF o = "dir" THEN lastWrite ELSE "failed_save"
            /\ saved' = saved
    /\ UNCHANGED sendVars
    /\ UNCHANGED ensVars
    /\ UNCHANGED <<aliveVars, raceVars, pureVars>>

\* State::remove: if path.exists() { remove_file? }
StateRemove_Strict(ok) ==
    /\ file # NoFile \/ ~ok
    /\ opRes' = Returns("remove", ok, FALSE, NoState)
    /\ file' = IF ok THEN NoFile ELSE file
    /\ lastWrite' = IF ok THEN "remove" ELSE lastWrite
    /\ UNCHANGED saved
    /\ UNCHANGED sendVars
    /\ UNCHANGED ensVars
    /\ UNCHANGED <<aliveVars, raceVars, pureVars>>

StateRemove(ok) ==
    /\ file = NoFile => ok
    /\ opRes' = Returns("remove", ok, FALSE, NoState)
    /\ file' = IF ok THEN NoFile ELSE file
    /\ lastWrite' = IF ok /\ file # NoFile THEN "remove" ELSE lastWrite
    /\ UNCHANGED saved
    /\ UNCHANGED sendVars
    /\ UNCHANGED ensVars
    /\ UNCHANGED <<aliveVars, raceVars, pureVars>>

\* State::load: Ok(None) without file, else read_to_string?, from_str?
StateLoad(io) ==
    /\ file = NoFile => io
    /\ opRes' =
         IF file = NoFile THEN Returns("load", TRUE, FALSE, NoState)
         ELSE IF ~io THEN Returns("load_io", FALSE, FALSE, NoState)
         ELSE LET parsed == FromJson(file) IN
              Returns("load", parsed.ok, parsed.ok, parsed.val)
    /\ UNCHANGED <<file, saved, lastWrite>>
    /\ UNCHANGED sendVars
    /\ UNCHANGED ensVars
    /\ UNCHANGED <<aliveVars, raceVars, pureVars>>

NextState ==
    \/ \E state \in StateSet, o \in {"ok", "dir", "write"} : StateSave(state, o)
    \/ \E ok \in BOOLEAN : StateRemove(ok)
    \/ \E io \in BOOLEAN : StateLoad(io)

\* ------------------------------------------- is_pid_alive called on its own
\* a process of another user is running
ForeignSpawned ==
    /\ nextPid <= MaxPid
    /\ alive' = alive \cup {nextPid}
    /\ foreign' = foreign \cup {nextPid}
    /\ nextPid' = nextPid + 1
    /\ UNCHANGED <<store, pc, url, st, child, ws_uri, app_id, nlines, ret,
                   trace, store0, foundDead, terminated, wasDead>>
    /\ UNCHANGED <<waitVars, lineVars, killVars>>
    /\ UNCHANGED sendVars
    /\ UNCHANGED <<fileVars, aliveRes, raceVars, pureVars>>

NoCheck == [pid |-> 0, errno |-> "", value |-> FALSE]

\* state.is_pid_alive() on the record of the state file
CheckPid ==
    /\ store # NoRec
    /\ aliveRes' = [pid |-> store.pid, errno |-> KillZero(store.pid),
                    value |-> IsPidAlive(store.pid)]
    /\ aliveRes' # aliveRes
    /\ UNCHANGED foreign
    /\ UNCHANGED <<fileVars, raceVars, pureVars>>
    /\ UNCHANGED sendVars
    /\ UNCHANGED ensVars

NextAlive ==
    \/ Spawned
    \/ ForeignSpawned
    \/ \E p \in 1..MaxPid : ProcDies(p)
    \/ \E r \in {Rec(q, u, NoApp) : q \in 1..MaxPid, u \in Urls} : Recorded(r)
    \/ CheckPid

\* ------------------------------------------------------------ stop_process
\* what no step of stop_process touches
StopFrame ==
    /\ UNCHANGED <<nextPid, url, child, ws_uri, app_id, nlines, foundDead>>
    /\ UNCHANGED <<waitVars, lineVars, killVars>>
    /\ UNCHANGED sendVars
    /\ UNCHANGED auxVars

\* stop_process(project_dir) is called (the `stop` command)
StopCall ==
    /\ pc \in {"idle", "done"}
    /\ pc' = "stop_load"
    /\ st' = NoRec
    /\ ret' = NoRet
    /\ trace' = <<>>
    /\ store0' = store
    /\ terminated' = {}
    /\ wasDead' = FALSE
    /\ UNCHANGED <<store, alive>>
    /\ StopFrame

\* let state = State::load(project_dir)?; None => Ok(())
StopLoad(ok) ==
    /\ pc = "stop_load"
    /\ store = NoRec => ok
    /\ trace' = Append(trace, Ev("load", 0, NoUrl))
    /\ IF ok
       THEN /\ st' = store
            /\ pc' = IF store = NoRec THEN "done" ELSE "stop_alive"
            /\ ret' = IF store = NoRec THEN Ok(NoUrl, 0) ELSE ret
       ELSE /\ st' = st
            /\ pc' = "done"
            /\ ret' = Err("load")
    /\ UNCHANGED <<store, alive, store0, terminated, wasDead>>
    /\ StopFrame

\* if s.is_pid_alive() { kill_process(s.pid) } else { "already dead" }
StopCheck_DeadReturns ==
    /\ pc = "stop_alive"
    /\ wasDead' = (st.pid \notin alive)
    /\ trace' = Append(trace, Ev("kill0", st.pid, NoUrl))
    /\ pc' = IF IsPidAlive(st.pid) THEN "stop_kill" ELSE "done"
    /\ ret' = IF IsPidAlive(st.pid) THEN ret ELSE Ok(NoUrl, 0)
    /\ UNCHANGED <<store, alive, st, store0, terminated>>
    /\ StopFrame

StopCheck ==
    /\ pc = "stop_alive"
    /\ wasDead' = (st.pid \notin alive)
    /\ trace' = Append(trace, Ev("kill0", st.pid, NoUrl))
    /\ pc' = IF IsPidAlive(st.pid) THEN "stop_kill" ELSE "stop_remove"
    /\ UNCHANGED <<store, alive, st, ret, store0, terminated>>
    /\ StopFrame

StopKill ==
    /\ pc = "stop_kill"
    /\ trace' = trace \o KillSignals(st.pid)
    /\ alive' = alive \ {st.pid}
    /\ terminated' = terminated \cup {st.pid}
    /\ pc' = "stop_remove"
    /\ UNCHANGED <<store, st, ret, store0, wasDead>>
    /\ StopFrame

\* State::remove(project_dir)?; Ok(())
StopRemove(ok) ==
    /\ pc = "stop_remove"
    /\ store = NoRec => ok
    /\ trace' = Append(trace, Ev(IF ok THEN "remove" ELSE "remove_failed",
                                 0, NoUrl))
    /\ store' = IF ok THEN NoRec ELSE store
    /\ ret' = IF ok THEN Ok(NoUrl, 0) ELSE Err("remove")
    /\ pc' = "done"
    /\ UNCHANGED <<alive, st, store0, terminated, wasDead>>
    /\ StopFrame

\* between two calls of stop, earlier invocations have spawned processes
\* and written or removed the record; a process may exit at any time
NextStop ==
    \/ StopCall
    \/ \E ok \in BOOLEAN : StopLoad(ok)
    \/ StopCheck
    \/ StopKill
    \/ \E ok \in BOOLEAN : StopRemove(ok)
    \/ pc \in {"idle", "done"} /\ Spawned
    \/ \E r \in {Rec(q, u, NoApp) : q \in 1..MaxPid, u \in Urls} :
            pc \in {"idle", "done"} /\ Recorded(r)
    \/ \E p \in 1..MaxPid : ProcDies(p)

\* ------------------------------- two invocations of the tool, one project
\* each invocation is a process of its own running ensure_connection(dir,
\* None) once; they share the state file and the process table only
Invocations == {1, 2}
Idle == [pc |-> "idle", st |-> NoRec, child |-> 0, uri |-> NoUrl]
At(i, pos) == inv[i].pc = pos
Move(i, pos) == inv' = [inv EXCEPT ![i].pc = pos]
RaceFrame ==
    /\ UNCHANGED <<pc, url, st, child, ws_uri, app_id, nlines, ret, trace,
                   store0, foundDead, terminated, wasDead>>
    /\ UNCHANGED <<waitVars, lineVars, killVars>>
    /\ UNCHANGED sendVars
    /\ UNCHANGED <<fileVars, aliveVars, pureVars>>

\* the invocation starts
RCall(i) ==
    /\ At(i, "idle")
    /\ Move(i, "load")
    /\ UNCHANGED <<store, alive, nextPid, saveOrder>>
    /\ RaceFrame

\* let state = State::load(project_dir)?
RLoad(i) ==
    /\ At(i, "load")
    /\ inv' = [inv EXCEPT ![i].st = store,
                          ![i].pc = IF store = NoRec THEN "launch" ELSE "alive"]
    /\ UNCHANGED <<store, alive, nextPid, saveOrder>>
    /\ RaceFrame

\* if state.is_pid_alive()
RCheckAlive(i) ==
    /\ At(i, "alive")
    /\ Move(i, IF IsPidAlive(inv[i].st.pid) THEN "probe" ELSE "remove")
    /\ UNCHANGED <<store, alive, nextPid, saveOrder>>
    /\ RaceFrame

\* try_connect(&state.ws_uri, 3000) && conn.ping(): return Ok(conn), or go on
RProbe(i, ok) ==
    /\ At(i, "probe")
    /\ Move(i, IF ok THEN "done" ELSE "kill_old")
    /\ UNCHANGED <<store, alive, nextPid, saveOrder>>
    /\ RaceFrame

\* kill_process(state.pid)
RKillOld(i) ==
    /\ At(i, "kill_old")
    /\ alive' = alive \ {inv[i].st.pid}
    /\ Move(i, "remove")
    /\ UNCHANGED <<store, nextPid, saveOrder>>
    /\ RaceFrame

\* State::remove(project_dir)?
RRemove(i, ok) ==
    /\ At(i, "remove")
    /\ store = NoRec => ok
    /\ store' = IF ok THEN NoRec ELSE store
    /\ Move(i, IF ok THEN "launch" ELSE "done")
    /\ UNCHANGED <<alive, nextPid, saveOrder>>
    /\ RaceFrame

\* start_flutter_run: Command::spawn
RLaunch(i) ==
    /\ At(i, "launch")
    /\ nextPid <= MaxPid
    /\ alive' = alive \cup {nextPid}
    /\ nextPid' = nextPid + 1
    /\ inv' = [inv EXCEPT ![i].child = nextPid, ![i].pc = "parse"]
    /\ UNCHANGED <<store, saveOrder>>
    /\ RaceFrame

\* parse_flutter_machine_output returns the endpoint, or fails after
\* kill_process(pid)
RParse(i, u) ==
    /\ At(i, "parse")
    /\ IF u # NoUrl
       THEN /\ inv' = [inv EXCEPT ![i].uri = u, ![i].pc = "save"]
            /\ alive' = alive
       ELSE /\ Move(i, "done")
            /\ alive' = alive \ {inv[i].child}
    /\ UNCHANGED <<store, nextPid, saveOrder>>
    /\ RaceFrame

\* state.save(project_dir)?: fs::write over whatever the file holds
RSave_KeepFirst(i) ==
    /\ At(i, "save")
    /\ store' = IF store = NoRec THEN Rec(inv[i].child, inv[i].uri, NoApp)
                ELSE store
    /\ saveOrder' = Append(saveOrder, i)
    /\ Move(i, "connect_new")
    /\ UNCHANGED <<alive, nextPid>>
    /\ RaceFrame

RSave(i) ==
    /\ At(i, "save")
    /\ store' = Rec(inv[i].child, inv[i].uri, NoApp)
    /\ saveOrder' = Append(saveOrder, i)
    /\ Move(i, "connect_new")
    /\ UNCHANGED <<alive, nextPid>>
    /\ RaceFrame

\* VmServiceConnection::connect(&ws_uri).await?
RConnect(i) ==
    /\ At(i, "connect_new")
    /\ Move(i, "done")
    /\ UNCHANGED <<store, alive, nextPid, saveOrder>>
    /\ RaceFrame

NextRace ==
    \/ \E i \in Invocations : RCall(i)
    \/ \E i \in Invocations : RLoad(i)
    \/ \E i \in Invocations : RCheckAlive(i)
    \/ \E i \in Invocations, ok \in BOOLEAN : RProbe(i, ok)
    \/ \E i \in Invocations : RKillOld(i)
    \/ \E i \in Invocations, ok \in BOOLEAN : RRemove(i, ok)
    \/ \E i \in Invocations : RLaunch(i)
    \/ \E i \in Invocations, u \in Urls \cup {NoUrl} : RParse(i, u)
    \/ \E i \in Invocations : RSave(i)
    \/ \E i \in Invocations : RConnect(i)
    \/ \E p \in 1..MaxPid : ProcDies(p)

\* ============================================= snapshot.rs: glob_match
\* length of the pattern and of the text given to glob_match
MaxGlob == 3

GlobChars == {"a", "b"}
Star == "*"
Patterns == UNION {[1..n -> GlobChars \cup {Star}] : n \in 0..MaxGlob}
Texts    == UNION {[1..n -> GlobChars] : n \in 0..MaxGlob}

\* str::split('*'): the pieces between the stars, empty pieces included
RECURSIVE SplitAt(_, _)
SplitAt(str, piece) ==
    IF str = <<>> THEN <<piece>>
    ELSE IF Head(str) = Star THEN <<piece>> \o SplitAt(Tail(str), <<>>)
    ELSE SplitAt(Tail(str), Append(piece, Head(str)))
Split(str) == SplitAt(str, <<>>)

\* text[pos..].find(part): offset of the first occurrence, NotFound if none
NotFound == -1
Find(text, pos, part) ==
    LET hits == {idx \in 0..(Len(text) - pos) :
                    /\ pos + idx + Len(part) <= Len(text)
                    /\ SubSeq(text, pos + idx + 1, pos + idx + Len(part)) = part}
    IN IF hits = {} THEN NotFound
       ELSE CHOOSE idx \in hits : \A other \in hits : idx <= other

\* the for loop over the parts: the position reached, NotFound on
\* `return false`
RECURSIVE GlobLoop(_, _, _, _)
GlobLoop(parts, i, text, pos) ==
    IF i > Len(parts) THEN pos
    ELSE IF parts[i] = <<>> THEN GlobLoop(parts, i + 1, text, pos)
    ELSE LET idx == Find(text, pos, parts[i]) IN
         IF idx = NotFound THEN NotFound
         ELSE IF i = 1 /\ idx # 0 THEN NotFound
         ELSE GlobLoop(parts, i + 1, text, pos + idx + Len(parts[i]))

GlobMatch(pattern, text) ==
    LET parts == Split(pattern) IN
    IF Len(parts) = 1 THEN text = pattern
    ELSE LET pos == GlobLoop(parts, 1, text, 0) IN
         /\ pos # NotFound
         /\ (parts[Len(parts)] = <<>> \/ pos = Len(text))

NoGlob == [called |-> FALSE, pattern |-> <<>>, text |-> <<>>, value |-> FALSE]

\* glob_match(pattern, text) is called, once for a filter and a widget type
GlobCall(pattern, text) ==
    /\ ~globRes.called
    /\ globRes' = [called |-> TRUE, pattern |-> pattern, text |-> text,
                   value |-> GlobMatch(pattern, text)]
    /\ UNCHANGED <<treeRes, parseRes>>
    /\ UNCHANGED <<fileVars, aliveVars, raceVars>>
    /\ UNCHANGED sendVars
    /\ UNCHANGED ensVars

NextGlob == \E pattern \in Patterns, text \in Texts : GlobCall(pattern, text)

\* ============================================= snapshot.rs: format_tree
\* number of nodes of the widget tree
MaxNodes == 4

\* widget types, as their characters
Text   == <<"T", "e", "x", "t">>
Row    == <<"R", "o", "w">>
Ink    == <<"I", "n", "k">>
PrivateRow == <<"_", "R", "o", "w">>
WidgetTypes == {Text, Row, Ink, PrivateRow}

\* the entries of FRAMEWORK_WIDGETS that occur among WidgetTypes
FRAMEWORK_WIDGETS == {Ink}

\* SnapshotOptions: max_depth and filter are Options
NoMaxDepth == [some |-> FALSE, val |-> 0]
MaxDepths  == {NoMaxDepth} \cup {[some |-> TRUE, val |-> d] : d \in 0..1}
Filters    == {None, <<"R", "O">>, <<"i", "*">>, <<"*", "t">>}
SnapshotOptions ==
    [max_depth : MaxDepths, filter : Filters, compact : BOOLEAN]

\* WidgetNode, with an empty description and no creation_location
WidgetNode(widget_type, value_id, children) ==
    [widget_type |-> widget_type, value_id |-> value_id,
     children |-> children]

RECURSIVE NodeCount(_)
NodeCount(nodes) ==
    IF nodes = <<>> THEN 0
    ELSE 1 + NodeCount(Head(nodes).children) + NodeCount(Tail(nodes))

\* depth of the last node on the right-most path
RECURSIVE SpineDepth(_)
SpineDepth(nodes) ==
    IF nodes = <<>> THEN 0
    ELSE 1 + SpineDepth(nodes[Len(nodes)].children)

\* the tree with `node` appended as the last child at depth d of the
\* right-most path, the order in which parse_diagnostics_node builds it
RECURSIVE AddAt(_, _, _)
AddAt(nodes, d, node) ==
    IF d = 0 THEN Append(nodes, node)
    ELSE [nodes EXCEPT ![Len(nodes)].children = AddAt(@, d - 1, node)]

\* to_ascii_lowercase on the letters in use
UpperCase == <<"I", "O", "R", "T">>
LowerCase == <<"i", "o", "r", "t">>
LowerChar(c) ==
    IF \E k \in 1..Len(UpperCase) : UpperCase[k] = c
    THEN LowerCase[CHOOSE k \in 1..Len(UpperCase) : UpperCase[k] = c]
    ELSE c
ToAsciiLowercase(str) == [k \in 1..Len(str) |-> LowerChar(str[k])]

IsFrameworkWidget_ListOnly(widget_type) ==
    widget_type \in FRAMEWORK_WIDGETS

IsFrameworkWidget(widget_type) ==
    \/ widget_type \in FRAMEWORK_WIDGETS
    \/ (widget_type # <<>> /\ Head(widget_type) = "_")

\* a printed line: the indentation, the widget type and the value id
Line(depth, node) ==
    [indent |-> depth, widget_type |-> node.widget_type,
     value_id |-> node.value_id]

RECURSIVE FormatNode(_, _, _)
RECURSIVE FormatChildren(_, _, _)
FormatChildren(children, depth, opts) ==
    IF children = <<>> THEN <<>>
    ELSE FormatNode(Head(children), depth, opts)
            \o FormatChildren(Tail(children), depth, opts)

FormatNode(node, depth, opts) ==
    IF opts.max_depth.some /\ depth > opts.max_depth.val THEN <<>>
    ELSE IF opts.compact /\ IsFrameworkWidget(node.widget_type)
         THEN FormatChildren(node.children, depth, opts)
    ELSE <<Line(depth, node)>>
            \o FormatChildren(node.children, depth + 1, opts)

NameMatchesFilter(name, filter) ==
    LET name_lower   == ToAsciiLowercase(name)
        filter_lower == ToAsciiLowercase(filter)
    IN IF \E k \in 1..Len(filter) : filter[k] = Star
       THEN GlobMatch(filter_lower, name_lower)
       ELSE Find(name_lower, 0, filter_lower) # NotFound

RECURSIVE CollectFilteredSubtrees(_, _)
RECURSIVE CollectChildren(_, _)
CollectChildren(children, opts) ==
    IF children = <<>> THEN <<>>
    ELSE CollectFilteredSubtrees(Head(children), opts)
            \o CollectChildren(Tail(children), opts)

CollectFilteredSubtrees(node, opts) ==
    LET filter == IF opts.filter = None THEN <<>> ELSE opts.filter IN
    IF NameMatchesFilter(node.widget_type, filter)
    THEN FormatNode(node, 0, [opts EXCEPT !.filter = None])
    ELSE CollectChildren(node.children, opts)

RECURSIVE FormatTree(_, _)
FormatTree(nodes, opts) ==
    IF nodes = <<>> THEN <<>>
    ELSE (IF opts.filter # None
          THEN CollectFilteredSubtrees(Head(nodes), opts)
          ELSE FormatNode(Head(nodes), 0, opts))
            \o FormatTree(Tail(nodes), opts)

NoTree == [called |-> FALSE, nodes |-> <<>>,
           opts |-> [max_depth |-> NoMaxDepth, filter |-> None,
                     compact |-> FALSE],
           lines |-> <<>>]

TreeFrame ==
    /\ UNCHANGED <<globRes, parseRes>>
    /\ UNCHANGED <<fileVars, aliveVars, raceVars>>
    /\ UNCHANGED sendVars
    /\ UNCHANGED ensVars

\* the inspector's answer holds one more node: the root first, then each
\* node as the last child of a node on the right-most path
TreeGrow(widget_type, d) ==
    /\ ~treeRes.called
    /\ NodeCount(treeRes.nodes) < MaxNodes
    /\ IF treeRes.nodes = <<>> THEN d = 0
       ELSE d \in 1..SpineDepth(treeRes.nodes)
    /\ treeRes' = [treeRes EXCEPT !.nodes =
            AddAt(@, d, WidgetNode(widget_type,
                                   NodeCount(treeRes.nodes) + 1, <<>>))]
    /\ TreeFrame

\* format_tree(nodes, opts) is called
FormatTreeCall(opts) ==
    /\ ~treeRes.called
    /\ treeRes' = [treeRes EXCEPT !.called = TRUE, !.opts = opts,
                                  !.lines = FormatTree(treeRes.nodes, opts)]
    /\ TreeFrame

NextTree ==
    \/ \E widget_type \in WidgetTypes, d \in 0..MaxNodes :
            TreeGrow(widget_type, d)
    \/ \E opts \in SnapshotOptions : FormatTreeCall(opts)

\* ================== process.rs: parse_flutter_machine_output on a stream
\* items the reader yields before the stream ends
MaxOut == 3

\* reader.lines() yields Err(e)
ReadError == [form |-> "readerr", ev |-> "", uri |-> NoUrl, app |-> NoApp]
OutItems == LineSet \cup {ReadError}
Outputs == UNION {[1..n -> OutItems] : n \in 0..MaxOut}

\* Result<(String, Option<String>)>
ParsedOk(uri, app) == [ok |-> TRUE, err |-> "", ws_uri |-> uri, app_id |-> app]
ParsedErr(e) == [ok |-> FALSE, err |-> e, ws_uri |-> NoUrl, app_id |-> NoApp]

\* the loop variables, and how the body left the loop
Loop(ctl, uri, app, e) == [ctl |-> ctl, ws_uri |-> uri, app_id |-> app, err |-> e]

\* the body of the for loop on one item, before the deadline
ParseStep_Strict(item, uri, app) ==
    IF item = ReadError \/ EventOf(item) = "skip"
    THEN Loop("return", uri, app, "read")
    ELSE LET ev == EventOf(item)
             u  == IF ev = "app.debugPort" /\ item.uri # NoUrl
                   THEN item.uri ELSE uri
             a  == IF ev = "app.debugPort" /\ item.app # NoApp
                   THEN item.app ELSE app
         IN IF ev \in {"app.stop", "daemon.shutdown"}
            THEN Loop("return", uri, app, "aborted")
            ELSE Loop(IF u # NoUrl THEN "break" ELSE "continue", u, a, "")

ParseStep(item, uri, app) ==
    IF item = ReadError THEN Loop("return", uri, app, "read")
    ELSE IF EventOf(item) = "skip" THEN Loop("continue", uri, app, "")
    ELSE LET ev == EventOf(item)
             u  == IF ev = "app.debugPort" /\ item.uri # NoUrl
                   THEN item.uri ELSE uri
             a  == IF ev = "app.debugPort" /\ item.app # NoApp
                   THEN item.app ELSE app
         IN IF ev \in {"app.stop", "daemon.shutdown"}
            THEN Loop("return", uri, app, "aborted")
            ELSE IF ev = "app.started" /\ u # NoUrl
            THEN Loop("break", u, a, "")
            ELSE Loop(IF u # NoUrl THEN "break" ELSE "continue", u, a, "")

\* for line in reader.lines() { .. }, then match ws_uri
RECURSIVE ParseLoop(_, _, _)
ParseLoop(items, uri, app) ==
    IF items = <<>>
    THEN (IF uri # NoUrl THEN ParsedOk(uri, app) ELSE ParsedErr("noendpoint"))
    ELSE LET step == ParseStep(Head(items), uri, app) IN
         CASE step.ctl = "return"   -> ParsedErr(step.err)
           [] step.ctl = "break"    -> ParsedOk(step.ws_uri, step.app_id)
           [] step.ctl = "continue" ->
                ParseLoop(Tail(items), step.ws_uri, step.app_id)

ParseFlutterMachineOutput(items) == ParseLoop(items, NoUrl, NoApp)

NoParse == [called |-> FALSE, items |-> <<>>, out |-> ParsedErr("")]

\* parse_flutter_machine_output runs on a stdout that yields `items` and
\* then ends, all of it before the deadline; one launch parses one stream
ParseCall(items) ==
    /\ ~parseRes.called
    /\ parseRes' = [called |-> TRUE, items |-> items,
                    out |-> ParseFlutterMachineOutput(items)]
    /\ UNCHANGED <<globRes, treeRes>>
    /\ UNCHANGED <<fileVars, aliveVars, raceVars>>
    /\ UNCHANGED sendVars
    /\ UNCHANGED ensVars

NextParse == \E items \in Outputs : ParseCall(items)

\* ================================================= the remaining state
InitAux ==
    /\ globRes = NoGlob
    /\ treeRes = NoTree
    /\ parseRes = NoParse
    /\ inv = [i \in Invocations |-> Idle]
    /\ saveOrder = <<>>
    /\ foreign = {}
    /\ aliveRes = NoCheck
    /\ file = NoFile
    /\ saved = NoState
    /\ opRes = Returns("none", TRUE, FALSE, NoState)
    /\ lastWrite = "none"

\* ======================================================= claims on send
\* the running send has just taken the head of the inbox
Consumed == awaiting # 0 /\ inbox # <<>> /\ inbox' = Tail(inbox)
\* the result payload a message carries ({} when it has no "result")
PayloadOf(m) == IF m.res = NoRes THEN EmptyObj ELSE m.res

\* C1: whenever one of the consecutive sends on a connection returns a
\* result, that result is the payload of a JSON message whose id is the id
\* this send assigned to its request; a message without id is never the
\* source of a returned result, and reading one leaves the send waiting.
C1_OwnResponse ==
    /\ [](last.kind = "ok" =>
            /\ last.src.typ = "text"
            /\ last.src.id # NoId
            /\ last.src.id = last.id
            /\ last.id \in 1..Len(used) /\ used[last.id] = last.id
            /\ last.val = PayloadOf(last.src))
    /\ [][(Consumed /\ Head(inbox).typ = "text" /\ Head(inbox).id = NoId)
            => (awaiting' = awaiting /\ last' = last)]_vars

\* a second or later send returned its result after discarding an event
C1_Witness ==
    /\ last.kind = "ok"
    /\ last.id >= 2
    /\ awaiting = 0
    /\ "event" \in skipped

\* C8: the first send uses id 1 and every later send or ping, also after
\* sends that failed, uses an id greater than every id used before.
C8_IdsIncrease ==
    /\ (used # <<>> => used[1] = 1)
    /\ \A i, j \in DOMAIN used : i < j => used[i] < used[j]
    /\ \A i \in DOMAIN used : used[i] < next_id

\* a ping runs with id 3 after an earlier send ended in a failure
C8_Witness ==
    /\ awaiting = 3
    /\ via = "ping"
    /\ last.kind \in {"write", "remote", "closed", "parse"}
    /\ last.id = 2

\* C9: while send waits for id k, a message with another id is discarded and
\* reading continues; a returned result or remote error always comes from a
\* message whose id is k.
C9_OtherIdsDiscarded ==
    /\ [](last.kind \in {"ok", "remote"} =>
            (last.src.typ = "text" /\ last.src.id = last.id))
    /\ [][(Consumed /\ Head(inbox).typ = "text" /\ Head(inbox).id # NoId
                    /\ Head(inbox).id # awaiting)
            => (awaiting' = awaiting /\ last' = last)]_vars

\* send 2 returned after discarding a message with another id (a late
\* response to request 1)
C9_Witness ==
    /\ last.kind \in {"ok", "remote"}
    /\ last.id = 2
    /\ awaiting = 0
    /\ "stale" \in skipped

\* C10 as stated: an error object on the matching message gives RemoteError
\* with its code and message and no result; without an error object the
\* result payload is returned.
C10_Original ==
    last.kind \in {"ok", "remote"} =>
        IF last.src.err.k = "obj"
        THEN /\ last.kind = "remote"
             /\ last.val = NoRes
             /\ (last.src.err.hasCode => last.code = last.src.err.code)
             /\ (last.src.err.hasMsg => last.message = last.src.err.message)
        ELSE /\ last.kind = "ok"
             /\ last.val = PayloadOf(last.src)

\* C10 amended: an "error" member of any JSON value (an object, null, a
\* string) on the matching message gives RemoteError and no result, also when
\* a result is present, with the member's integer code and string message
\* where it has them and 0 / "unknown error" where not; without an "error"
\* member the result payload is returned ({} when there is none).
C10_ErrorMember ==
    last.kind \in {"ok", "remote"} =>
        IF last.src.err.k # "absent"
        THEN /\ last.kind = "remote"
             /\ last.val = NoRes
             /\ last.code = (IF last.src.err.hasCode THEN last.src.err.code ELSE 0)
             /\ last.message = (IF last.src.err.hasMsg THEN last.src.err.message
                                ELSE "unknown error")
        ELSE /\ last.kind = "ok"
             /\ last.val = PayloadOf(last.src)

\* the matching message carried both an error object and a result
C10_Witness ==
    /\ last.kind = "remote"
    /\ last.src.err = ErrFull
    /\ last.src.res # NoRes
    /\ last.code = 7
    /\ last.message = "boom"

\* C11: when the stream ends while send waits for its response, send
\* returns the ConnectionClosed failure for its own id and no result at that
\* very step, whatever it read and discarded before; no send is left waiting
\* on a stream that has ended.
C11_ClosedFails ==
    /\ [][(awaiting # 0 /\ wsState # "closed" /\ wsState' = "closed")
            => (/\ awaiting' = 0
                /\ last' = Outcome(awaiting, "closed", NoRes, 0, "", NoMsg))]_vars
    /\ [](wsState = "closed" => awaiting = 0)
    /\ [](last.kind = "closed" => (last.val = NoRes /\ wsState = "closed"))

\* send 2 failed with ConnectionClosed after discarding an event and a
\* response to another request
C11_Witness ==
    /\ last.kind = "closed"
    /\ last.id = 2
    /\ skipped = {"event", "stale"}

\* C12: the connection only moves connecting -> open -> closed: a failed
\* connect leaves no client (nothing is ever sent), a closed connection stays
\* closed, and a send issued on a closed connection fails at once without a
\* result.
C12_Lifecycle ==
    /\ [][/\ (wsState = "connecting" => wsState' \in {"connecting", "open", "failed"})
          /\ (wsState = "failed" => wsState' = "failed")
          /\ (wsState = "open" => wsState' \in {"open", "peerClosed", "closed"})
          /\ (wsState = "peerClosed" => wsState' \in {"peerClosed", "closed"})
          /\ (wsState = "closed" => wsState' = "closed")
          /\ ((wsState = "closed" /\ used' # used)
                => (awaiting' = 0 /\ last'.kind = "write" /\ last'.val = NoRes))]_vars
    /\ [](wsState \in {"connecting", "failed"}
            => (used = <<>> /\ awaiting = 0 /\ next_id = 0))

\* a send issued after the connection was seen closed has failed
C12_Witness ==
    /\ wsState = "closed"
    /\ Len(used) = 3
    /\ last.kind = "write"
    /\ last.id = 3

\* ========================================== claims on ensure_connection
\* the call has returned
Returned == pc = "done"
\* the kinds of trace events that remove the record / open a connection
Removal == {"remove", "remove_failed"}
Connects == {"connect", "connect_failed", "probe_ok", "probe_failed"}

\* C2: when ensure_connection has returned, with Ok or Err, the state file
\* names no process that this call found dead or ran kill_process on, also
\* when load, remove or save failed.
C2_NoStaleRecord ==
    Returned => (store = NoRec \/ store.pid \notin (foundDead \cup terminated))

\* C3: when ensure_connection has returned a failure, a process the call
\* spawned is not alive unless the state file names it.
C3_NoDanglingProcess ==
    (Returned /\ ~ret.ok /\ child # 0 /\ child \in alive) => store.pid = child

\* C4: a call whose recorded process was gone when it probed it makes no
\* connection attempt to the recorded endpoint (no probe, and no connect at
\* all before it has spawned a new process); the removal of the record is
\* what follows the liveness check, the fresh launch starts only after the
\* record was removed, and a call that removed the record does not return
\* without having entered the fresh launch.
C4_DeadNeverProbed ==
    wasDead =>
        /\ ~Has("probe_ok") /\ ~Has("probe_failed")
        /\ \A i \in DOMAIN trace : trace[i].e \in Connects =>
              \E j \in DOMAIN trace : j < i /\ trace[j].e = "spawn"
        /\ (pc = "remove" \/ Has("remove") \/ Has("remove_failed"))
        /\ Before("remove", "launch")
        /\ (pc \in {"launch", "parse", "save", "connect_new"} => Has("remove"))
        /\ ((Returned /\ Has("remove")) => Has("launch"))

\* a call that found its recorded process dead has launched a new one and
\* returned the connection to it
C4_Witness ==
    /\ wasDead
    /\ Returned
    /\ ret.ok
    /\ Has("spawn")
    /\ store.pid = child

\* the probe of the recorded endpoint failed: connect failed or timed out,
\* or the ping returned false
Unreachable == Has("probe_failed") \/ Has("ping_false")

\* C5: in a call whose recorded process was alive and whose probe failed,
\* kill_process on the recorded pid comes first, the removal of the record
\* second and the spawn of the new process only after both; the call does
\* not return from the failed probe: what it returns is decided by the
\* removal or by the fresh launch.
C5_KillRemoveLaunch ==
    Unreachable =>
        /\ (pc = "kill_old" \/ (HasP("SIGTERM", st.pid) /\ HasP("SIGKILL", st.pid)))
        /\ \A j \in DOMAIN trace : trace[j].e \in Removal =>
              \E i, k \in DOMAIN trace :
                 /\ i < k /\ k < j
                 /\ trace[i] = Ev("SIGTERM", st.pid, NoUrl)
                 /\ trace[k] = Ev("SIGKILL", st.pid, NoUrl)
        /\ ((Has("remove") \/ Has("remove_failed")) => st.pid \notin alive)
        /\ Before("remove", "spawn")
        /\ Before("remove", "launch")
        /\ (Returned => (Has("remove") \/ Has("remove_failed")))
        /\ (Returned /\ ~ret.ok /\ ~Has("launch") => ret.err = "remove")

\* the ping of a live recorded process failed and the call went on to
\* spawn a new process
C5_Witness ==
    /\ Has("ping_false")
    /\ Has("spawn")
    /\ Returned
    /\ ret.ok
    /\ st.pid \notin alive
    /\ store.pid = child

\* C6: a call whose recorded process is alive and whose recorded endpoint
\* answered the connect and the ping has returned the client of that
\* endpoint and has done nothing else: no signal, no spawn, no removal and
\* no write of the record.
C6_ReuseChangesNothing ==
    Has("ping_ok") =>
        /\ Returned
        /\ ret.ok /\ ret.ep = st.ws_uri
        /\ store = store0 /\ st = store0
        /\ child = 0
        /\ terminated = {}
        /\ \A i \in DOMAIN trace : trace[i].e \in {"load", "kill0", "probe_ok", "ping_ok"}

\* the recorded endpoint answered and the call returned while the recorded
\* process is alive
C6_Witness ==
    /\ Has("ping_ok")
    /\ Returned
    /\ st # NoRec
    /\ st.pid \in alive

\* C7: a call with an explicit endpoint only connects to that endpoint: on
\* success and on connect failure alike it reads, writes and removes no
\* record, and probes, signals and spawns no process.
C7_ExplicitBypasses ==
    url # NoUrl =>
        /\ Len(trace) <= 1
        /\ \A i \in DOMAIN trace :
              trace[i].e \in {"connect", "connect_failed"} /\ trace[i].ep = url
        /\ store = store0
        /\ st = NoRec
        /\ child = 0
        /\ foundDead = {} /\ terminated = {}
        /\ (pc \in {"connect_url", "done"})
        /\ (Returned => ret \in {Ok(url, 1), Err("connect")})

\* the connect to the explicit endpoint failed while a record of a dead
\* process sat in the state file: the call returned and left it there
C7_Witness ==
    /\ url # NoUrl
    /\ Returned
    /\ ret = Err("connect")
    /\ store # NoRec
    /\ store.pid \notin alive

C16_AbortCleansUp ==
    (Returned /\ ret = Err("aborted")) =>
        (/\ child \in terminated
         /\ HasP("SIGKILL", child)
         /\ store = NoRec)

\* C17: when the stdout of the spawned process ends and no line has
\* announced an endpoint, the launch runs kill_process on the child, leaves
\* no record and fails with the no-endpoint error; the parser hands an
\* endpoint to the save whenever it succeeds.
C17_NoEndpoint ==
    /\ [][(pc = "parse" /\ stdoutReady = "end" /\ stdoutReady' # "end")
            => (/\ ws_uri = NoUrl
                /\ pc' = "done"
                /\ ret' = Err("noendpoint")
                /\ child \in terminated'
                /\ child \notin alive'
                /\ store' = NoRec)]_vars
    /\ [](ret = Err("noendpoint") =>
            /\ Before("SIGTERM", "SIGKILL")
            /\ HasP("SIGTERM", child) /\ HasP("SIGKILL", child)
            /\ store = NoRec)
    /\ [][(pc = "parse" /\ pc' # "parse")
            => (\/ pc' = "save" /\ ws_uri' # NoUrl
                \/ pc' = "done" /\ ~ret'.ok)]_vars
    /\ [](pc \in {"save", "connect_new"} => ws_uri # NoUrl)

\* the stream ended after two lines without endpoint, one of them
\* app.started
C17_Witness ==
    /\ Returned
    /\ ret = Err("noendpoint")
    /\ nlines = 2
    /\ lastLine.ev = "app.started"
    /\ child \in terminated

\* C18: every call of kill_process sends SIGTERM to the pid and then, when
\* it resumes after the sleep, SIGKILL to the same pid, whether the process
\* is still there or not; neither step touches the state file, and a call
\* on a pid whose process is gone goes through the same two steps.
C18_TermThenKill ==
    /\ [][(killing = 0 /\ killing' # 0)
            => (/\ trace' = Append(trace, Ev("SIGTERM", killing', NoUrl))
                /\ store' = store)]_vars
    /\ [][(killing # 0 /\ killing' # killing)
            => (/\ killing' = 0
                /\ trace' = Append(trace, Ev("SIGKILL", killing, NoUrl))
                /\ killing \notin alive'
                /\ store' = store)]_vars
    /\ [](\A i \in DOMAIN trace :
            /\ trace[i].e = "SIGKILL" =>
                  (i > 1 /\ trace[i - 1] = Ev("SIGTERM", trace[i].pid, NoUrl))
            /\ trace[i].e = "SIGTERM" =>
                  IF i < Len(trace)
                  THEN trace[i + 1] = Ev("SIGKILL", trace[i].pid, NoUrl)
                  ELSE killing = trace[i].pid)
    /\ [](Len(trace) = 2 * Len(kills) - (IF killing = 0 THEN 0 ELSE 1))

\* kill_process has run twice on the pid of a process that had exited
\* before the first call, with a record in the state file
C18_Witness ==
    /\ killing = 0
    /\ Len(kills) = 2
    /\ kills[1].pid = kills[2].pid
    /\ kills[1].pid < nextPid
    /\ kills[1].gone /\ kills[2].gone
    /\ Len(trace) = 4
    /\ store # NoRec

\* C19: the state file gets a record only at the save of the fresh launch:
\* no record exists at that moment, the parser has returned an endpoint,
\* the record written names the process just spawned and the endpoint its
\* last line announced, and no connect to the new endpoint has been made
\* yet; the connect of the launch comes after the save.
C19_SaveAfterHandshake ==
    /\ [][(store' # store /\ store' # NoRec)
            => (/\ pc = "save"
                /\ store = NoRec
                /\ HasP("spawn", child)
                /\ trace[Len(trace)] = Ev("spawn", child, NoUrl)
                /\ ws_uri # NoUrl
                /\ ws_uri = lastLine.uri
                /\ store' = Rec(child, ws_uri, app_id)
                /\ ~Has("connect") /\ ~Has("connect_failed")
                /\ trace' = Append(trace, Ev("save", child, ws_uri)))]_vars
    /\ [](url = NoUrl =>
            \A i \in DOMAIN trace :
                trace[i].e \in {"connect", "connect_failed"} =>
                    (i > 1 /\ trace[i - 1] = Ev("save", child, ws_uri)))

\* a record found at the start was removed and the launch has saved the
\* record of the new process
C19_Witness ==
    /\ pc = "connect_new"
    /\ store0 # NoRec
    /\ Has("remove")
    /\ store = Rec(child, ws_uri, app_id)
    /\ store.pid # store0.pid

\* the events of one kind in the trace of the call
Count(e) == Cardinality({i \in DOMAIN trace : trace[i].e = e})

\* C20: the fresh launch only moves forward (spawn, handshake, save,
\* connect) and its first failure ends the call with that failure: the
\* launch is entered once and spawns at most one process per call.
C20_NoRetry ==
    /\ [](Count("launch") <= 1 /\ Count("spawn") <= 1 /\ Count("save") <= 1)
    /\ [][/\ (pc = "launch" => pc' \in {"launch", "parse", "done"})
          /\ (pc = "parse" => pc' \in {"parse", "save", "done"})
          /\ (pc = "save" => pc' \in {"save", "connect_new", "done"})
          /\ (pc = "connect_new" => pc' \in {"connect_new", "done"})
          /\ ((pc \in {"launch", "parse", "save", "connect_new"} /\ pc' = "done")
                => (ret' # NoRet /\ (ret'.ok => pc = "connect_new")))]_vars
    /\ [](pc \in {"launch", "parse", "save", "connect_new"} => ret = NoRet)
    /\ []((Returned /\ Has("launch"))
            => (\/ ret = Ok(ws_uri, 1)
                \/ ret.err \in {"config", "stderr", "spawn", "timeout", "read",
                                "aborted", "noendpoint", "save", "connect"}))

\* the connect to the endpoint of the process just spawned failed and the
\* call has returned that failure
C20_Witness ==
    /\ Returned
    /\ ret = Err("connect")
    /\ Count("spawn") = 1
    /\ Has("save")
    /\ trace[Len(trace)] = Ev("connect_failed", child, ws_uri)

\* C13: once the startup deadline has passed with no endpoint announced, the
\* launch returns (with the timeout failure, after signalling the spawned
\* process), also when the process writes nothing and keeps its stdout open.
C13_TimeoutFires ==
    /\ (pc = "parse" /\ deadlinePassed) ~> Returned
    /\ [](ret = Err("timeout") => (HasP("SIGTERM", child) /\ child \notin alive))

\* C14: the probe of a recorded endpoint ends, also when the connection is
\* accepted and the ping is never answered: the call goes on to return the
\* connection or to kill_process.
C14_ProbeEnds ==
    (pc \in {"probe", "ping"}) ~> (pc \notin {"probe", "ping"})

\* C21: a load that follows a successful save (of a new file or over an
\* old one, after any earlier saves and removes) and reads the file returns
\* Some(state) with every field equal to the state saved last.
C21_RoundTrip ==
    (opRes.op = "load" /\ lastWrite \in {"save", "resave"})
        => (opRes.ok /\ opRes.some /\ opRes.val = saved)

\* a state with quotes and backslashes in its strings, no app_id and two
\* arguments was saved over an older file and loaded back
C21_Witness ==
    /\ opRes.op = "load"
    /\ lastWrite = "resave"
    /\ opRes.val = saved
    /\ saved = FullState(12, <<"dq", "bs">>, None, <<"a", "bs">>,
                         <<<<"dq">>, <<>>>>, 305)

\* C22: remove without a file returns Ok and changes nothing, a successful
\* remove leaves no file (so a second remove leaves what the first left),
\* and load without a file returns Ok(None).
C22_RemoveIdempotent ==
    /\ [][(opRes'.op = "remove" /\ opRes' # opRes /\ file = NoFile)
            => (opRes'.ok /\ file' = NoFile /\ saved' = saved)]_vars
    /\ []((opRes.op = "remove" /\ opRes.ok) => file = NoFile)
    /\ []((opRes.op = "load" /\ file = NoFile)
            => (opRes.ok /\ ~opRes.some /\ opRes.val = NoState))

\* a record was saved and removed, and the load after it found nothing
C22_Witness ==
    /\ lastWrite = "remove"
    /\ saved # NoState
    /\ file = NoFile
    /\ opRes = Returns("load", TRUE, FALSE, NoState)

\* C23: is_pid_alive returns false exactly when kill(pid, 0) reports that
\* there is no such process (ESRCH), and true on every other outcome, the
\* refusal for a process of another user (EPERM) included.
C23_AliveUnlessNotFound ==
    aliveRes # NoCheck => (aliveRes.value <=> aliveRes.errno # "ESRCH")

\* C24: nothing orders the launches of two invocations: each save writes
\* the saver's own record over whatever the file holds, so the file always
\* names the process of the invocation that saved last, and a process
\* spawned by the other invocation is named by no record.
C24_LastSaveWins ==
    /\ [][(store' # store /\ store' # NoRec) =>
            \E i \in Invocations :
                /\ inv[i].pc = "save"
                /\ store' = Rec(inv[i].child, inv[i].uri, NoApp)
                /\ saveOrder' = Append(saveOrder, i)]_vars
    /\ [](store # NoRec =>
            /\ saveOrder # <<>>
            /\ store.pid = inv[saveOrder[Len(saveOrder)]].child
            /\ \A i \in Invocations :
                  i # saveOrder[Len(saveOrder)] => inv[i].child # store.pid)

\* both invocations found no record, both launched and saved, both have
\* returned: two processes are alive, the record names the one of the
\* invocation that saved last, the other is an orphan
C24_Witness ==
    /\ \A i \in Invocations : inv[i].pc = "done" /\ inv[i].st = NoRec
    /\ saveOrder = <<2, 1>>
    /\ {inv[1].child, inv[2].child} \subseteq alive
    /\ inv[1].child # inv[2].child
    /\ store.pid = inv[1].child
    /\ store.pid # inv[2].child

\* the running call is one of stop_process
Stopping == pc \in {"stop_load", "stop_alive", "stop_kill", "stop_remove"}

\* C25: a stop that succeeds leaves no record; with a record, the recorded
\* process is signalled only when is_pid_alive found it alive and the
\* remove follows with or without the signals; without a record, stop
\* returns Ok at once having signalled and written nothing.
C25_StopRemoves ==
    /\ [][(Stopping /\ pc' = "done" /\ ret'.ok) => store' = NoRec]_vars
    /\ [][(pc = "stop_load" /\ pc' # pc /\ store = NoRec)
            => (/\ pc' = "done"
                /\ ret' = Ok(NoUrl, 0)
                /\ store' = NoRec
                /\ alive' = alive
                /\ trace' = <<Ev("load", 0, NoUrl)>>)]_vars
    /\ [][/\ (pc = "stop_alive" => pc' \in {"stop_alive", "stop_kill", "stop_remove"})
          /\ (pc = "stop_kill" => pc' \in {"stop_kill", "stop_remove"})
          /\ ((pc = "stop_alive" /\ pc' = "stop_kill") => st.pid \in alive)
          /\ ((pc = "stop_alive" /\ pc' = "stop_remove") => st.pid \notin alive)]_vars
    /\ []((Stopping \/ Returned) =>
            /\ (terminated # {} => (~wasDead /\ terminated = {st.pid}))
            /\ (Has("SIGTERM") \/ Has("SIGKILL")) => terminated # {}
            /\ (Has("remove") => (st # NoRec /\ Has("kill0"))))

\* the record named a process that had exited: stop sent no signal, removed
\* the record and returned Ok
C25_Witness ==
    /\ Returned
    /\ ret = Ok(NoUrl, 0)
    /\ store0 # NoRec
    /\ store = NoRec
    /\ wasDead
    /\ st.pid < nextPid
    /\ terminated = {}
    /\ trace = <<Ev("load", 0, NoUrl), Ev("kill0", st.pid, NoUrl),
                 Ev("remove", 0, NoUrl)>>

\* wildcard matching: a star stands for any run of characters, every other
\* character for itself, the whole text is matched
RECURSIVE WildMatch(_, _)
WildMatch(pattern, text) ==
    IF pattern = <<>> THEN text = <<>>
    ELSE IF Head(pattern) = Star
         THEN \/ WildMatch(Tail(pattern), text)
              \/ text # <<>> /\ WildMatch(pattern, Tail(text))
    ELSE /\ text # <<>>
         /\ Head(text) = Head(pattern)
         /\ WildMatch(Tail(pattern), Tail(text))

\* C26: glob_match(pattern, text) is true exactly when the text matches the
\* pattern as a wildcard pattern anchored at both ends.
C26_GlobIsWildcard ==
    globRes.called =>
        (globRes.value <=> WildMatch(globRes.pattern, globRes.text))

\* the nodes of a tree in document order, each with the widget types on
\* the path from the root down to the node itself
RECURSIVE Flatten(_, _)
Flatten(nodes, anc) ==
    IF nodes = <<>> THEN <<>>
    ELSE LET node == Head(nodes)
             path == Append(anc, node.widget_type)
         IN <<[widget_type |-> node.widget_type, value_id |-> node.value_id,
               path |-> path]>>
                \o Flatten(node.children, path)
                \o Flatten(Tail(nodes), anc)

Lowered(str) ==
    [k \in 1..Len(str) |->
        CASE str[k] = "I" -> "i" [] str[k] = "O" -> "o"
          [] str[k] = "R" -> "r" [] str[k] = "T" -> "t"
          [] OTHER -> str[k]]

\* the filter of the claim: case-insensitive substring, or wildcard pattern
\* when the filter holds a star
FilterMatches(name, filter) ==
    IF \E k \in 1..Len(filter) : filter[k] = Star
    THEN WildMatch(Lowered(filter), Lowered(name))
    ELSE \E at \in 0..(Len(name) - Len(filter)) :
            SubSeq(Lowered(name), at + 1, at + Len(filter)) = Lowered(filter)

\* position on the path of the top-most node that matches, 0 if none does
TopMatch(path, filter) ==
    LET hits == {k \in 1..Len(path) : FilterMatches(path[k], filter)}
    IN IF hits = {} THEN 0
       ELSE CHOOSE k \in hits : \A other \in hits : k <= other

RECURSIVE FilteredLines(_, _)
FilteredLines(flat, filter) ==
    IF flat = <<>> THEN <<>>
    ELSE LET n   == Head(flat)
             top == TopMatch(n.path, filter)
         IN (IF top = 0 THEN <<>>
             ELSE <<[indent |-> Len(n.path) - top,
                     widget_type |-> n.widget_type,
                     value_id |-> n.value_id]>>)
                \o FilteredLines(Tail(flat), filter)

\* C27: with a filter (and neither compact mode nor a depth limit) the
\* output is, in document order, every node that lies in the subtree of a
\* top-most matching node, indented by its depth below that node; nothing
\* else is printed.
C27_FilterPrintsTopMost ==
    (/\ treeRes.called
     /\ treeRes.opts.filter # None
     /\ ~treeRes.opts.compact
     /\ ~treeRes.opts.max_depth.some)
        => treeRes.lines
            = FilteredLines(Flatten(treeRes.nodes, <<>>), treeRes.opts.filter)

\* framework-internal as the claim words it
FrameworkInternal(widget_type) ==
    \/ widget_type = Ink
    \/ widget_type[1] = "_"

\* number of printed (not framework-internal) proper ancestors
PrintedDepth(path) ==
    Cardinality({k \in 1..(Len(path) - 1) : ~FrameworkInternal(path[k])})

RECURSIVE CompactLines(_, _)
CompactLines(flat, max_depth) ==
    IF flat = <<>> THEN <<>>
    ELSE LET n == Head(flat)
             d == PrintedDepth(n.path)
         IN (IF \/ FrameworkInternal(n.widget_type)
                \/ (max_depth.some /\ d > max_depth.val)
             THEN <<>>
             ELSE <<[indent |-> d, widget_type |-> n.widget_type,
                     value_id |-> n.value_id]>>)
                \o CompactLines(Tail(flat), max_depth)

\* C28: in compact mode, without a filter, the output is, in document
\* order, every node that is not framework-internal, indented by the number
\* of its ancestors that are not framework-internal; with max_depth = d only
\* the nodes whose indentation is at most d.
C28_CompactPromotes ==
    (/\ treeRes.called
     /\ treeRes.opts.compact
     /\ treeRes.opts.filter = None)
        => treeRes.lines
            = CompactLines(Flatten(treeRes.nodes, <<>>), treeRes.opts.max_depth)

\* a tree with a listed and a private node above a printed one, no limit
C28_Witness ==
    /\ treeRes.called
    /\ treeRes.opts.compact
    /\ treeRes.opts.filter = None
    /\ ~treeRes.opts.max_depth.some
    /\ \E i, j, k \in 1..Len(Flatten(treeRes.nodes, <<>>)) :
        LET flat == Flatten(treeRes.nodes, <<>>) IN
        /\ flat[i].widget_type = Ink
        /\ flat[j].widget_type = PrivateRow
        /\ flat[k].widget_type = Text
        /\ Len(flat[k].path) = 3
        /\ flat[k].path[1] \in {Ink, PrivateRow}
        /\ \E l \in 1..Len(treeRes.lines) :
            /\ treeRes.lines[l].value_id = flat[k].value_id
            /\ treeRes.lines[l].indent < 2

\* a depth limit cuts a printed node off in compact mode
C28_WitnessLimit ==
    /\ treeRes.called
    /\ treeRes.opts.compact
    /\ treeRes.opts.filter = None
    /\ treeRes.opts.max_depth.some
    /\ treeRes.lines # <<>>
    /\ \E k \in 1..Len(Flatten(treeRes.nodes, <<>>)) :
        LET n == Flatten(treeRes.nodes, <<>>)[k] IN
        /\ ~FrameworkInternal(n.widget_type)
        /\ \A l \in 1..Len(treeRes.lines) :
            treeRes.lines[l].value_id # n.value_id

\* C29: when ensure_connection has returned a failure after it spawned a
\* process, kill_process has been run on that process (SIGTERM, then
\* SIGKILL) before the return.
C29_FailedLaunchKills ==
    (Returned /\ ~ret.ok /\ child # 0 /\ HasP("spawn", child))
        => (HasP("SIGTERM", child) /\ HasP("SIGKILL", child))

\* lines the parser has no use for: no JSON, an empty array, or an event
\* name it does not know
Ignorable(item) ==
    \/ item.form \in {"junk", "emptyarr"}
    \/ (item.form \in {"bare", "array"} /\ item.ev = "other")

Strip(items) == SelectSeq(items, LAMBDA item : ~Ignorable(item))

\* C30: the outcome of the handshake parser on a stream (success or kind of
\* failure, endpoint, applicationId) is its outcome on the same stream with
\* every ignorable line deleted; so streams that differ only by ignorable
\* lines have the same outcome.
C30_IgnorableLinesIgnored ==
    parseRes.called =>
        parseRes.out = ParseFlutterMachineOutput(Strip(parseRes.items))

\* ignorable lines stand between the line that gave the applicationId and
\* the line that gave the endpoint
C30_Witness ==
    /\ parseRes.called
    /\ Len(parseRes.items) = 3
    /\ Ignorable(parseRes.items[2])
    /\ parseRes.items[1].app # NoApp
    /\ parseRes.items[1].uri = NoUrl
    /\ parseRes.out = ParsedOk(parseRes.items[3].uri, parseRes.items[1].app)
    /\ parseRes.out.ws_uri # NoUrl

\* the stream with every array-wrapped event replaced by the bare object,
\* and with every bare object wrapped in a one-element array
Rewrap(items, from, to) ==
    [k \in 1..Len(items) |->
        IF items[k].form = from THEN [items[k] EXCEPT !.form = to]
        ELSE items[k]]
Unwrapped(items) == Rewrap(items, "array", "bare")
Wrapped(items)   == Rewrap(items, "bare", "array")

\* C31: the handshake parser gives the same result (success or failure
\* kind, endpoint, applicationId) on a stream, on the stream with every
\* wrapped event unwrapped, and on the stream with every bare event wrapped
\* in a one-element array.
C31_ArrayAsBare ==
    parseRes.called =>
        /\ parseRes.out = ParseFlutterMachineOutput(Unwrapped(parseRes.items))
        /\ parseRes.out = ParseFlutterMachineOutput(Wrapped(parseRes.items))

\* the applicationId came from a wrapped line, the endpoint from a later
\* bare one
C31_Witness ==
    /\ parseRes.called
    /\ Len(parseRes.items) >= 2
    /\ parseRes.items[1].form = "array"
    /\ parseRes.items[1].app # NoApp
    /\ parseRes.items[1].uri = NoUrl
    /\ parseRes.items[2].form = "bare"
    /\ parseRes.items[2].uri # NoUrl
    /\ parseRes.out = ParsedOk(parseRes.items[2].uri, parseRes.items[1].app)

\* a wrapped app.stop aborts the launch
C31_WitnessAbort ==
    /\ parseRes.called
    /\ Len(parseRes.items) >= 1
    /\ parseRes.items[1].form = "array"
    /\ parseRes.items[1].ev = "app.stop"
    /\ parseRes.out = ParsedErr("aborted")

\* C32: no send ends on an inbound message that is not JSON: such a message
\* is never the source of a send's outcome and no send fails on parsing it.
C32_UnparsableDiscarded ==
    /\ last.kind # "parse"
    /\ last.src.typ # "garbled"

\* a ping has returned: the send it issued has ended, `last` is its outcome
PingReturned == via = "ping" /\ awaiting = 0 /\ last.kind # "none"

\* the send under the ping ended on a message with its own id
OwnResponse == last.src.typ = "text" /\ last.src.id = last.id

\* C33 as stated: ping is true exactly when its request got a matching
\* response that carries no error object.
C33_Original ==
    PingReturned =>
        (PingValue(last) <=> (OwnResponse /\ last.src.err.k # "obj"))

\* C33 amended: ping is true exactly when its request got a matching
\* response that carries no "error" member of any JSON value; it is false
\* when the request ended in a remote error, a closed connection, a failed
\* write or an unparsable message, and a Boolean in every case.
C33_PingIsOk ==
    PingReturned =>
        /\ PingValue(last) \in BOOLEAN
        /\ PingValue(last) <=> (OwnResponse /\ last.src.err.k = "absent")
        /\ last.kind \in {"remote", "closed", "write", "parse"}
                => ~PingValue(last)

\* the second request of the client was a ping, answered after an event
C33_Witness ==
    /\ PingReturned
    /\ PingValue(last)
    /\ last.id = 2
    /\ "event" \in skipped

\* pings that returned false: remote error, closed connection, failed write
C33_WitnessRemote == PingReturned /\ last.kind = "remote" /\ last.src.err = ErrFull
C33_WitnessClosed == PingReturned /\ last.kind = "closed"
C33_WitnessWrite  == PingReturned /\ last.kind = "write"

\* ========================================================= specifications
Init == InitSend /\ InitEnsure /\ InitAux

SpecSend   == Init /\ [][NextSend]_vars
SpecEnsure == Init /\ [][NextEnsure]_vars

SpecKill == Init /\ [][NextKill]_vars

SpecState == Init /\ [][NextState]_vars

SpecAlive == Init /\ [][NextAlive]_vars

SpecRace == Init /\ [][NextRace]_vars

SpecStop == Init /\ [][NextStop]_vars

SpecGlob == Init /\ [][NextGlob]_vars

SpecTree == Init /\ [][NextTree]_vars

SpecParse == Init /\ [][NextParse]_vars

\* the steps the thread of ensure_connection takes by itself, once the item
\* it reads is there; try_connect is bounded by its 3000 ms timeout
EnsureStep ==
    \/ \E ok \in BOOLEAN : ConnectUrl(ok)
    \/ \E ok \in BOOLEAN : Load(ok)
    \/ CheckAlive
    \/ \E c \in {"ok", "refused", "timeout"} : ProbeConnect(c)
    \/ \E s \in PingStreams : ProbePing(s)
    \/ KillOld
    \/ \E ok \in BOOLEAN : Remove(ok)
    \/ \E o \in {"ok", "config", "stderr", "spawn"} : Launch(o)
    \/ \E rm \in BOOLEAN : ParseTimeout(rm)
    \/ ParseReadError
    \/ \E line \in LineSet, rm \in BOOLEAN : ParseLine(line, rm)
    \/ \E rm \in BOOLEAN : ParseEof(rm)
    \/ \E ok \in BOOLEAN : Save(ok)
    \/ \E ok \in BOOLEAN : ConnectNew(ok)

\* the stdout of a process that has exited reaches its end, and so does the
\* connection to an endpoint whose process has exited
ExitSeen ==
    \/ child \notin alive /\ \E k \in {"item", "end"} : ProcOutput(k)
    \/ st.pid \notin alive /\ EndpointAnswers

\* the running call is scheduled and the clock advances; nothing obliges a
\* running process to write to its stdout or to answer on its endpoint
SpecEnsureFair ==
    /\ Init /\ [][NextEnsure]_vars
    /\ WF_vars(EnsureStep)
    /\ WF_vars(DeadlinePasses)
    /\ WF_vars(ExitSeen)

====
